---------------------------- MODULE Spec2Model ----------------------------
(***************************************************************************)
(* Model of the rule-evaluation and reconciliation core of the audit       *)
(* sampling tool (module/DVKH.py, module/hdv.py, module/to_khai_hq.py,     *)
(* module/error_utils.py).                                                 *)
(*                                                                         *)
(* Text is a sequence of one-character strings, so that trimming, case     *)
(* folding, substring search and number parsing are computed and not       *)
(* assumed.  A missing cell (pandas NaN / None) is the one-element         *)
(* sequence NaN, which is no text the alphabets can spell.                 *)
(***************************************************************************)
EXTENDS Integers, Sequences, FiniteSets, TLC

VARIABLES
    pc,         \* the step the modelled run is at
    norm_x,     \* norm_custseq: the cell passed in
    norm_r1,    \* norm_custseq(x)
    norm_r2,    \* norm_custseq(norm_custseq(x))
    sol_raw,    \* validate_sol_only: the text typed into the SOL box
    sol_res,    \* validate_sol_only: what the call returned or raised
    flt_df,     \* filter_by_sol_contains: the table passed in
    flt_pattern,\* filter_by_sol_contains: the branch code passed in
    flt_out,    \* filter_by_sol_contains: the table returned
    tc3_raw,    \* HDV criterion 3: chi_nhanh_tc3_raw, the SOL text typed in
    tc3_df,     \* HDV criterion 3: the rows read from the Muc 11 workbook
    tc3_today,  \* HDV criterion 3: today's midnight at the time of the run
    tc3_out,    \* HDV criterion 3: what the run showed (result table or error)
    rlx_path,   \* relaxed schema: which input of process_tieuchi_4_5 ("42a" / "mapping")
    rlx_cols,   \* relaxed schema: the declared column list
    rlx_read,   \* relaxed schema: the table as the reader returned it
    rlx_df,     \* relaxed schema: the table object handed to ensure_columns
    rlx_out,    \* relaxed schema: ensure_columns(df, cols)[cols]
    str_pipe,   \* strict schema: the pipeline that loads the workbook
    str_header, \* strict schema: the header row of the uploaded workbook
    str_out,    \* strict schema: how loading, checking and selecting ended
    uq_a,       \* DVKH 1-3: the Muc30 authorization workbook (df_a as read)
    uq_ckh,     \* DVKH 1-3: the CKH deposit rows (df_b_CKH)
    uq_kkh,     \* DVKH 1-3: the KKH deposit rows (df_b_KKH)
    uq_sms,     \* DVKH 1-3: the SMS registration rows (df_sms_raw)
    uq_scm,     \* DVKH 1-3: the SCM010 rows (df_scm10)
    uq_out,     \* DVKH 1-3: what process_uyquyen_sms_scm returned
    tc4_42a,    \* DVKH 4: the KKH detail rows (the 4.2.a workbooks, concatenated)
    tc4_42b,    \* DVKH 4: the charge-level rows (4.2.b)
    tc4_42c,    \* DVKH 4: the staff list (4.2.c)
    tc4_42d,    \* DVKH 4: the resigned-staff list (4.2.d)
    tc4_cn,     \* DVKH 4: chi_nhanh, the branch code
    tc4_out,    \* DVKH 4: the criterion-4 table process_tieuchi_4_5 returned
    tc1_raw,    \* HDV 1: the text typed in the SOL box
    tc1_ckh,    \* HDV 1: the CKH deposit rows (the uploaded workbooks, concatenated)
    tc1_ftp,    \* HDV 1: the FTP rate rows
    tc1_tt,     \* HDV 1: the actual-rate rows
    tc1_out,    \* HDV 1: what the run left on the page
    hq_df,      \* TKHQ: the customs-declaration workbook as read
    hq_audit,   \* TKHQ: ngay_kiem_toan, the audit date (midnight), in ticks
    hq_build,   \* TKHQ: how the installed pandas parses a column of date texts
    hq_out,     \* TKHQ: the table process_tkhq_data returned
    tc2_raw,    \* HDV 2: the text typed in the SOL box
    tc2_ckh,    \* HDV 2: the CKH deposit rows (the uploaded workbooks, concatenated)
    tc2_kkh,    \* HDV 2: the KKH deposit rows
    tc2_out,    \* HDV 2: what the run left on the page
    xls_dfs,    \* exporter: the mapping given to to_excel_bytes, its entries in order
    xls_out,    \* exporter: the workbook in the bytes returned, or the exception raised
    xls_read,   \* exporter: the tables read back from the sheets of the workbook
    pg_tc,      \* HDV page: the criterion whose run button is pressed
    pg_raw,     \* HDV page: the text typed in the SOL box
    pg_files,   \* HDV page: the uploads of the criterion, each with the header of its workbook
    pg_page,    \* HDV page: what the run rendered, in order
    disp_menu,  \* dispatcher: the menu entry chosen
    disp_exc,   \* dispatcher: the exception with which the body of the module ends
    disp_import,  \* dispatcher: whether streamlit.runtime.scriptrunner has the control exceptions
    disp_out,   \* dispatcher: the exception that leaves run_with_user_error, and the page
    btn_up,     \* DVKH buttons: what is in each upload box
    btn_out,    \* DVKH buttons: the page, the audit entries and the tables of the press
    al_exists,  \* audit file: whether dvkh_audit.csv exists
    al_file,    \* audit file: its lines
    al_calls,   \* audit file: the number of audit_log calls each run makes
    al_done,    \* audit file: the number of calls each run has finished
    al_at,      \* audit file: where each run is in its current call
    al_header   \* audit file: the header flag each run computed

\* a cell that no run has written yet
Idle == <<"<idle>">>

varsNorm == <<norm_x, norm_r1, norm_r2>>
varsSol == <<sol_raw, sol_res>>
varsFlt == <<flt_df, flt_pattern, flt_out>>
varsTc3 == <<tc3_raw, tc3_df, tc3_today, tc3_out>>
varsRlx == <<rlx_path, rlx_cols, rlx_read, rlx_df, rlx_out>>
varsStr == <<str_pipe, str_header, str_out>>
varsUq == <<uq_a, uq_ckh, uq_kkh, uq_sms, uq_scm, uq_out>>
varsTc4 == <<tc4_42a, tc4_42b, tc4_42c, tc4_42d, tc4_cn, tc4_out>>
varsTc1 == <<tc1_raw, tc1_ckh, tc1_ftp, tc1_tt, tc1_out>>
varsHq == <<hq_df, hq_audit, hq_build, hq_out>>
varsTc2 == <<tc2_raw, tc2_ckh, tc2_kkh, tc2_out>>
varsXls == <<xls_dfs, xls_out, xls_read>>
varsPg == <<pg_tc, pg_raw, pg_files, pg_page>>
varsDisp == <<disp_menu, disp_exc, disp_import, disp_out>>
varsBtn == <<btn_up, btn_out>>
varsAl == <<al_exists, al_file, al_calls, al_done, al_at, al_header>>
vars == <<pc, varsNorm, varsSol, varsFlt, varsTc3, varsRlx, varsStr, varsUq, varsTc4, varsTc1,
    varsHq, varsTc2, varsXls, varsPg, varsDisp, varsBtn, varsAl>>

\* what a run of one family leaves alone: the variables of the other families
othersNorm == <<varsSol, varsFlt, varsTc3, varsRlx, varsStr, varsUq, varsTc4, varsTc1, varsHq,
    varsTc2, varsXls, varsPg, varsDisp, varsBtn, varsAl>>
othersSol == <<varsNorm, varsFlt, varsTc3, varsRlx, varsStr, varsUq, varsTc4, varsTc1, varsHq,
    varsTc2, varsXls, varsPg, varsDisp, varsBtn, varsAl>>
othersFlt == <<varsNorm, varsSol, varsTc3, varsRlx, varsStr, varsUq, varsTc4, varsTc1, varsHq,
    varsTc2, varsXls, varsPg, varsDisp, varsBtn, varsAl>>
othersTc3 == <<varsNorm, varsSol, varsFlt, varsRlx, varsStr, varsUq, varsTc4, varsTc1, varsHq,
    varsTc2, varsXls, varsPg, varsDisp, varsBtn, varsAl>>
othersRlx == <<varsNorm, varsSol, varsFlt, varsTc3, varsStr, varsUq, varsTc4, varsTc1, varsHq,
    varsTc2, varsXls, varsPg, varsDisp, varsBtn, varsAl>>
othersStr == <<varsNorm, varsSol, varsFlt, varsTc3, varsRlx, varsUq, varsTc4, varsTc1, varsHq,
    varsTc2, varsXls, varsPg, varsDisp, varsBtn, varsAl>>
othersUq == <<varsNorm, varsSol, varsFlt, varsTc3, varsRlx, varsStr, varsTc4, varsTc1, varsHq,
    varsTc2, varsXls, varsPg, varsDisp, varsBtn, varsAl>>
othersTc4 == <<varsNorm, varsSol, varsFlt, varsTc3, varsRlx, varsStr, varsUq, varsTc1, varsHq,
    varsTc2, varsXls, varsPg, varsDisp, varsBtn, varsAl>>
othersTc1 == <<varsNorm, varsSol, varsFlt, varsTc3, varsRlx, varsStr, varsUq, varsTc4, varsHq,
    varsTc2, varsXls, varsPg, varsDisp, varsBtn, varsAl>>
othersHq == <<varsNorm, varsSol, varsFlt, varsTc3, varsRlx, varsStr, varsUq, varsTc4, varsTc1,
    varsTc2, varsXls, varsPg, varsDisp, varsBtn, varsAl>>
othersTc2 == <<varsNorm, varsSol, varsFlt, varsTc3, varsRlx, varsStr, varsUq, varsTc4,
    varsTc1, varsHq, varsXls, varsPg, varsDisp, varsBtn, varsAl>>
othersXls == <<varsNorm, varsSol, varsFlt, varsTc3, varsRlx, varsStr, varsUq, varsTc4,
    varsTc1, varsHq, varsTc2, varsPg, varsDisp, varsBtn, varsAl>>
othersPg == <<varsNorm, varsSol, varsFlt, varsTc3, varsRlx, varsStr, varsUq, varsTc4, varsTc1,
    varsHq, varsTc2, varsXls, varsDisp, varsBtn, varsAl>>
othersDisp == <<varsNorm, varsSol, varsFlt, varsTc3, varsRlx, varsStr, varsUq, varsTc4,
    varsTc1, varsHq, varsTc2, varsXls, varsPg, varsBtn, varsAl>>
othersBtn == <<varsNorm, varsSol, varsFlt, varsTc3, varsRlx, varsStr, varsUq, varsTc4,
    varsTc1, varsHq, varsTc2, varsXls, varsPg, varsDisp, varsAl>>
othersAl == <<varsNorm, varsSol, varsFlt, varsTc3, varsRlx, varsStr, varsUq, varsTc4, varsTc1,
    varsHq, varsTc2, varsXls, varsPg, varsDisp, varsBtn>>

IdleNorm == norm_x = Idle /\ norm_r1 = Idle /\ norm_r2 = Idle
IdleSol == sol_raw = Idle /\ sol_res = Idle
IdleFlt == flt_df = Idle /\ flt_pattern = Idle /\ flt_out = Idle
IdleTc3 == tc3_raw = Idle /\ tc3_df = Idle /\ tc3_today = 0 /\ tc3_out = Idle
IdleRlx ==
    rlx_path = "" /\ rlx_cols = Idle /\ rlx_read = Idle /\ rlx_df = Idle /\ rlx_out = Idle
IdleStr == str_pipe = "" /\ str_header = Idle /\ str_out = Idle
IdleUq ==
    uq_a = Idle /\ uq_ckh = Idle /\ uq_kkh = Idle /\ uq_sms = Idle /\ uq_scm = Idle
        /\ uq_out = Idle

IdleTc4 ==
    tc4_42a = Idle /\ tc4_42b = Idle /\ tc4_42c = Idle /\ tc4_42d = Idle /\ tc4_cn = Idle
        /\ tc4_out = Idle

IdleTc1 ==
    tc1_raw = Idle /\ tc1_ckh = Idle /\ tc1_ftp = Idle /\ tc1_tt = Idle /\ tc1_out = Idle

IdleHq ==
    hq_df = Idle /\ hq_audit = Idle /\ hq_build = Idle /\ hq_out = Idle

IdleTc2 ==
    tc2_raw = Idle /\ tc2_ckh = Idle /\ tc2_kkh = Idle /\ tc2_out = Idle

IdleXls ==
    xls_dfs = Idle /\ xls_out = Idle /\ xls_read = Idle

IdlePg ==
    pg_tc = Idle /\ pg_raw = Idle /\ pg_files = Idle /\ pg_page = Idle

IdleDisp ==
    disp_menu = Idle /\ disp_exc = Idle /\ disp_import = Idle /\ disp_out = Idle

IdleBtn ==
    btn_up = Idle /\ btn_out = Idle

IdleAl ==
    al_exists = Idle /\ al_file = Idle /\ al_calls = Idle /\ al_done = Idle /\ al_at = Idle /\ al_header = Idle

\* only the family g runs: the variables of every other family stay unwritten
OnlyRuns(g) ==
    /\ IF g = "norm" THEN TRUE ELSE IdleNorm
    /\ IF g = "sol" THEN TRUE ELSE IdleSol
    /\ IF g = "flt" THEN TRUE ELSE IdleFlt
    /\ IF g = "tc3" THEN TRUE ELSE IdleTc3
    /\ IF g = "rlx" THEN TRUE ELSE IdleRlx
    /\ IF g = "str" THEN TRUE ELSE IdleStr
    /\ IF g = "uq" THEN TRUE ELSE IdleUq
    /\ IF g = "tc4" THEN TRUE ELSE IdleTc4
    /\ IF g = "tc1" THEN TRUE ELSE IdleTc1
    /\ IF g = "hq" THEN TRUE ELSE IdleHq
    /\ IF g = "tc2" THEN TRUE ELSE IdleTc2
    /\ IF g = "xls" THEN TRUE ELSE IdleXls
    /\ IF g = "pg" THEN TRUE ELSE IdlePg
    /\ IF g = "disp" THEN TRUE ELSE IdleDisp
    /\ IF g = "btn" THEN TRUE ELSE IdleBtn
    /\ IF g = "al" THEN TRUE ELSE IdleAl

(***************************************************************************)
(* Bounds of the model                                                     *)
(***************************************************************************)
MaxCellLen == 3      \* longest enumerated cell text of the norm_custseq runs
MaxSolLen == 5       \* longest enumerated text of the validate_sol_only runs
MaxFilterRows == 2   \* most rows of a table passed to filter_by_sol_contains
MaxTc3Rows == 1      \* most rows of a Muc 11 workbook (HDV criterion 3)
MaxTick == 21        \* latest posting time of a Muc 11 row, in ticks
TicksPerDay == 2     \* resolution of the modelled timestamps: ticks in a day
MaxInputCols == 3    \* most columns of a workbook given to the relaxed normalization
MaxDeclared == 2     \* most columns of a declared schema in the relaxed runs
MaxSchemaRows == 1   \* most rows of a workbook given to the relaxed normalization
MaxOddCols == 2      \* most declared columns a strict-mode workbook lacks or misspells
MaxUqRows == 3       \* most rows, over its five uploads together, of one DVKH 1-3 run
MaxTc4Rows == 3      \* most rows, over its four uploads together, of one DVKH 4 run
MaxTc1Rows == 3      \* most rows, over its three uploads together, of one HDV 1 run
MaxHqRows == 2       \* most rows of a customs-declaration workbook
MaxTc2Rows == 2      \* most rows, over its two uploads together, of a small HDV 2 run
MaxLadder == 21      \* most customers of a large HDV 2 run
MaxNameLen == 32     \* longest name of a result table given to the exporter
MaxXlsRows == 2      \* most rows, over its tables together, of a mapping given to the exporter
MaxWriters == 2      \* concurrent runs that write audit entries
MaxLead == 20        \* most cells between the first and the last of a long date column
MaxEntries == 2      \* most audit_log calls of one run

(***************************************************************************)
(* Text helpers (Python str / re semantics on the modelled alphabet)       *)
(***************************************************************************)
NaN == <<"<NaN>">>
None == <<"<None>">>

IsNa(x) == x = NaN \/ x = None

\* str(x): a missing float prints as "nan", None as "None"
Str(x) ==
    IF x = NaN THEN <<"n", "a", "n">>
    ELSE IF x = None THEN <<"N", "o", "n", "e">>
    ELSE x

SpaceChars == {" ", "\t"}
AsciiDigits == {"0", "1", "2", "3", "4", "5", "6", "7", "8", "9"}
\* decimal digits outside ASCII (ARABIC-INDIC DIGIT ONE..FOUR), written by code point
UnicodeDigits == {"u0661", "u0662", "u0663", "u0664"}

LowerOf ==
    [c \in {"A", "B", "C", "D", "E", "F", "G", "H", "I", "J", "K", "L", "M",
             "N", "O", "P", "Q", "R", "S", "T", "U", "V", "W", "X", "Y", "Z"} |->
        CASE c = "A" -> "a" [] c = "B" -> "b" [] c = "C" -> "c" [] c = "D" -> "d"
          [] c = "E" -> "e" [] c = "F" -> "f" [] c = "G" -> "g" [] c = "H" -> "h"
          [] c = "I" -> "i" [] c = "J" -> "j" [] c = "K" -> "k" [] c = "L" -> "l"
          [] c = "M" -> "m" [] c = "N" -> "n" [] c = "O" -> "o" [] c = "P" -> "p"
          [] c = "Q" -> "q" [] c = "R" -> "r" [] c = "S" -> "s" [] c = "T" -> "t"
          [] c = "U" -> "u" [] c = "V" -> "v" [] c = "W" -> "w" [] c = "X" -> "x"
          [] c = "Y" -> "y" [] c = "Z" -> "z"]

LowerChar(c) == IF c \in DOMAIN LowerOf THEN LowerOf[c] ELSE c

UpperOf ==
    [c \in {LowerOf[u] : u \in DOMAIN LowerOf} |-> CHOOSE u \in DOMAIN LowerOf : LowerOf[u] = c]

UpperChar(c) == IF c \in DOMAIN UpperOf THEN UpperOf[c] ELSE c

\* str.lower() / str.upper()
Lower(s) == [i \in 1..Len(s) |-> LowerChar(s[i])]
Upper(s) == [i \in 1..Len(s) |-> UpperChar(s[i])]

\* str.strip()
RECURSIVE LStrip(_)
LStrip(s) == IF s # <<>> /\ Head(s) \in SpaceChars THEN LStrip(Tail(s)) ELSE s

RECURSIVE RStrip(_)
RStrip(s) ==
    IF s # <<>> /\ s[Len(s)] \in SpaceChars THEN RStrip(SubSeq(s, 1, Len(s) - 1)) ELSE s

Strip(s) == RStrip(LStrip(s))

\* p occurs in s as a contiguous substring (p in s; re.search of a literal p)
Contains(s, p) ==
    \E i \in 1..(Len(s) - Len(p) + 1) : SubSeq(s, i, i + Len(p) - 1) = p

(***************************************************************************)
(* Natural numbers of any size, as sequences of decimal digits, most       *)
(* significant first; and IEEE-754 double rounding, which float() applies. *)
(***************************************************************************)
DigitVal(c) ==
    CASE c = "0" -> 0 [] c = "1" -> 1 [] c = "2" -> 2 [] c = "3" -> 3 [] c = "4" -> 4
      [] c = "5" -> 5 [] c = "6" -> 6 [] c = "7" -> 7 [] c = "8" -> 8 [] c = "9" -> 9

DigitChar(n) ==
    CASE n = 0 -> "0" [] n = 1 -> "1" [] n = 2 -> "2" [] n = 3 -> "3" [] n = 4 -> "4"
      [] n = 5 -> "5" [] n = 6 -> "6" [] n = 7 -> "7" [] n = 8 -> "8" [] n = 9 -> "9"

\* drop leading zeros, keeping a single "0" for zero: str(int)
RECURSIVE PlainDigits(_)
PlainDigits(d) ==
    IF Len(d) > 1 /\ Head(d) = "0" THEN PlainDigits(Tail(d)) ELSE d

IsZero(d) == \A i \in 1..Len(d) : d[i] = "0"

\* d divided by two, digit by digit: the quotient's digits (same length as d)
HalfDigits(d) ==
    [i \in 1..Len(d) |->
        DigitChar((DigitVal(d[i]) + (IF i > 1 THEN 10 * (DigitVal(d[i - 1]) % 2) ELSE 0)) \div 2)]

\* 2 * d + bit, digit by digit (a digit of 5 or more carries into the next place)
DoublePlus(d, bit) ==
    LET n == Len(d)
        carryIn(i) == IF i < n THEN (IF DigitVal(d[i + 1]) >= 5 THEN 1 ELSE 0) ELSE bit
        body == [i \in 1..n |-> DigitChar((2 * DigitVal(d[i]) + carryIn(i)) % 10)]
    IN  IF n > 0 /\ DigitVal(d[1]) >= 5 THEN <<"1">> \o body ELSE body

\* the binary digits of d, least significant first
RECURSIVE ToBits(_)
ToBits(d) ==
    IF IsZero(d) THEN <<>>
    ELSE LET q == HalfDigits(d)
         IN  IF Len(q) = Len(d)
             THEN <<DigitVal(d[Len(d)]) % 2>> \o ToBits(q)
             ELSE <<>>

\* the decimal digits of a binary number given least significant first
RECURSIVE FromBits(_, _, _)
FromBits(bits, i, acc) ==
    IF i = 0 THEN acc
    ELSE LET nxt == DoublePlus(acc, bits[i])
         IN  IF Len(nxt) > 0 THEN FromBits(bits, i - 1, nxt) ELSE acc

\* bits + 1
RECURSIVE IncBits(_)
IncBits(bits) ==
    IF bits = <<>> THEN <<1>>
    ELSE IF Head(bits) = 0 THEN <<1>> \o Tail(bits)
    ELSE <<0>> \o IncBits(Tail(bits))

MantissaBits == 53      \* precision of a Python float (IEEE-754 binary64)
MaxExponent == 1024     \* a float of 2^1024 or more is inf

\* the bits of the double nearest to the number (round half to even)
RoundToDouble(bits) ==
    LET n == Len(bits)
        k == n - MantissaBits
    IN  IF k <= 0 THEN bits
        ELSE LET mant == SubSeq(bits, k + 1, n)
                 roundBit == bits[k]
                 sticky == \E i \in 1..(k - 1) : bits[i] = 1
                 up == roundBit = 1 /\ (sticky \/ mant[1] = 1)
             IN  [i \in 1..k |-> 0] \o (IF up THEN IncBits(mant) ELSE mant)

(***************************************************************************)
(* norm_custseq (DVKH.py, inside process_uyquyen_sms_scm)                  *)
(***************************************************************************)
\* the number of leading ASCII digits of s
RECURSIVE DigitPrefixLen(_)
DigitPrefixLen(s) ==
    IF s # <<>> /\ Head(s) \in AsciiDigits THEN 1 + DigitPrefixLen(Tail(s)) ELSE 0

\* re.match(r"^\d+(\.0+)?$", s)
MatchesIntText(s) ==
    LET k == DigitPrefixLen(s)
    IN  /\ k >= 1
        /\ \/ k = Len(s)
           \/ /\ Len(s) >= k + 2
              /\ s[k + 1] = "."
              /\ \A i \in (k + 2)..Len(s) : s[i] = "0"

IntPart(s) == SubSeq(s, 1, DigitPrefixLen(s))

NA == <<"N", "A">>

\* every integer of at most 15 decimal digits is a double: float() keeps it as it is
ExactDigits == 15

\* str(int(float(sx))); int(inf) raises OverflowError, which the bare except turns into "NA"
StrIntFloat(sx) ==
    LET d == PlainDigits(IntPart(sx))
        r == RoundToDouble(ToBits(d))
    IN  IF Len(d) <= ExactDigits THEN d
        ELSE IF Len(r) > MaxExponent THEN NA
        ELSE PlainDigits(FromBits(r, Len(r), <<"0">>))

norm_custseq(x) ==
    IF IsNa(x) THEN NA
    ELSE LET sx == Strip(Str(x))
         IN  IF sx = <<>> \/ Lower(sx) = <<"n", "a", "n">> THEN NA
             ELSE IF MatchesIntText(sx) THEN StrIntFloat(sx)
             ELSE sx

(***************************************************************************)
(* Runs of norm_custseq on one cell                                        *)
(***************************************************************************)
NormAlphabet == {"0", "1", ".", " ", "n", "a", "N", "A"}

RECURSIVE TextsUpTo(_, _)
TextsUpTo(alphabet, n) ==
    IF n = 0 THEN {<<>>}
    ELSE LET shorter == TextsUpTo(alphabet, n - 1)
         IN  shorter \cup {Append(s, c) : s \in shorter, c \in alphabet}

\* 2^53 + 1 and 2^53 + 3: the first integers a double cannot hold
Big1 == <<"9","0","0","7","1","9","9","2","5","4","7","4","0","9","9","3">>
Big3 == <<"9","0","0","7","1","9","9","2","5","4","7","4","0","9","9","5">>

NormSamples ==
    { NaN, None,
      <<"1", "2", "3", ".", "0", "0">>,
      <<" ", "1", "2", "3", "4", "5", ".", "0", " ">>,
      <<"0", "0", "7", ".", "0">>,
      <<"1", "2", ".", "5", "0">>,
      <<" ", "N", "a", "N", " ">>,
      <<"A", "1", " ", "B">>,
      Big1, Big3, Big1 \o <<".", "0">> }

NormInputs == TextsUpTo(NormAlphabet, MaxCellLen) \cup NormSamples

InitNorm ==
    /\ pc = "norm"
    /\ norm_x \in NormInputs
    /\ norm_r1 = Idle
    /\ norm_r2 = Idle
    /\ OnlyRuns("norm")

\* merged["CIF_NGUOI_UY_QUYEN"] = merged["CUSTSEQ"].apply(norm_custseq), on one cell
NormApply ==
    /\ pc = "norm"
    /\ norm_r1' = norm_custseq(norm_x)
    /\ pc' = "normed"
    /\ UNCHANGED <<norm_x, norm_r2, othersNorm>>

\* the normalizer applied to its own result
NormAgain ==
    /\ pc = "normed"
    /\ norm_r2' = norm_custseq(norm_r1)
    /\ pc' = "renormed"
    /\ UNCHANGED <<norm_x, norm_r1, othersNorm>>

NextNorm == NormApply \/ NormAgain

SpecNorm == InitNorm /\ [][NextNorm]_vars

(***************************************************************************)
(* C4: norm_custseq                                                        *)
(***************************************************************************)
NormMissing(x) ==
    IsNa(x) \/ Strip(Str(x)) = <<>> \/ Lower(Strip(Str(x))) = <<"n", "a", "n">>

\* the plain integer string the claim promises for an integer text
PlainIntegerOf(x) == PlainDigits(IntPart(Strip(Str(x))))

NormCasesAsClaimed ==
    pc \in {"normed", "renormed"} =>
        /\ NormMissing(norm_x) => norm_r1 = NA
        /\ ~NormMissing(norm_x) /\ MatchesIntText(Strip(Str(norm_x)))
              => norm_r1 = PlainIntegerOf(norm_x)
        /\ ~NormMissing(norm_x) /\ ~MatchesIntText(Strip(Str(norm_x)))
              => norm_r1 = Strip(Str(norm_x))

NormIdempotent == pc = "renormed" => norm_r2 = norm_r1

\* C4: norm_custseq maps an integer text, with or without a ".0..." tail, to the
\* plain integer string, maps a missing, empty, blank or "nan" cell to "NA",
\* returns any other text trimmed, and is idempotent.
C4_NormCustseq == NormCasesAsClaimed /\ NormIdempotent

(***************************************************************************)
(* validate_sol_only (error_utils.py)                                      *)
(***************************************************************************)
SolLength == 4

\* str.isdigit(): non-empty and every character is a decimal digit of any script
IsDigit(s) == s # <<>> /\ \A i \in 1..Len(s) : s[i] \in AsciiDigits \cup UnicodeDigits

\* the result of a call: a returned value, or the UserFacingError raised
Returned(v) == [raised |-> "", value |-> v]
Raised(reason) == [raised |-> reason, value |-> <<>>]

validate_sol_only(raw) ==
    IF raw = None THEN Raised("blank")
    ELSE LET s == Strip(Str(raw))
         IN  IF s = <<>> THEN Raised("blank")
             ELSE IF ~IsDigit(s) THEN Raised("digits only")
             ELSE IF Len(s) # SolLength THEN Raised("exact length")
             ELSE Returned(s)

SolAlphabet == {"0", "1", "A", " ", "u0661"}

SolSamples ==
    { None,
      <<"1", "0", "0", "0">>,
      <<"1", "0", "0">>,
      <<"1", "0", "0", "0", "0">>,
      <<"1", "0", "A", "0">>,
      <<"a", "b", "c", "d">>,
      <<" ", "1", "2", "3", "4", " ", " ">>,
      <<"u0661", "u0662", "u0663", "u0664">> }

SolInputs == TextsUpTo(SolAlphabet, MaxSolLen) \cup SolSamples

InitSol ==
    /\ pc = "sol"
    /\ sol_raw \in SolInputs
    /\ sol_res = Idle
    /\ OnlyRuns("sol")

\* chi_nhanh = validate_sol_only(chi_nhanh_raw)
ValidateSol ==
    /\ pc = "sol"
    /\ sol_res' = validate_sol_only(sol_raw)
    /\ pc' = "sol_done"
    /\ UNCHANGED <<sol_raw, othersSol>>

NextSol == ValidateSol

SpecSol == InitSol /\ [][NextSol]_vars

(***************************************************************************)
(* C8: validate_sol_only                                                   *)
(***************************************************************************)
IsFourAsciiDigits(s) == Len(s) = SolLength /\ \A i \in 1..Len(s) : s[i] \in AsciiDigits

\* C8: a branch code is accepted iff, trimmed, it is exactly 4 ASCII digits, and
\* then the trimmed text is returned; every other input (None, blank, non-digit,
\* wrong length, digits of another script) raises the error with a reason.
C8_ValidateSol ==
    pc = "sol_done" =>
        LET ok == sol_raw # None /\ IsFourAsciiDigits(Strip(Str(sol_raw)))
        IN  /\ ok => sol_res = Returned(Strip(Str(sol_raw)))
            /\ ~ok => sol_res.raised \in {"blank", "digits only", "exact length"}

(***************************************************************************)
(* filter_by_sol_contains (hdv.py)                                         *)
(***************************************************************************)
\* re.search(p, s) for a pattern of literal characters and ".", which stands for
\* any character; Series.str.contains uses it (regex=True is the default)
ReSearch(s, p) ==
    \E i \in 1..(Len(s) - Len(p) + 1) :
        \A j \in 1..Len(p) : p[j] = "." \/ s[i + j - 1] = p[j]

\* df[col].astype(str): every cell becomes text, a missing one the text "nan"
AsTypeStr(cell) == Str(cell)

\* Series.str.contains(pat, na=False) on one cell: a missing cell gives False
StrContains(cell, pat) == IF IsNa(cell) THEN FALSE ELSE ReSearch(cell, pat)

\* (mutant) the mask without upper-casing the column: a case-sensitive match
SolMask_CaseSensitive(row, pattern) ==
    StrContains(AsTypeStr(row.SOL), Upper(Str(pattern)))

\* the boolean mask of line 72, for one row
SolMask(row, pattern) == StrContains(Upper(AsTypeStr(row.SOL)), Upper(Str(pattern)))

filter_by_sol_contains(df, pattern) ==
    IF pattern = None \/ Strip(Str(pattern)) = <<>> THEN df
    ELSE SelectSeq(df, LAMBDA row : SolMask(row, pattern))

\* branch cells and codes the runs draw from
FilterCells ==
    { NaN,
      <<"1", "0", "0", "0">>,
      <<"x", "1", "0", "0", "0">>,
      <<"1", "x", "0", "0">>,
      <<"2", "0", "0", "0">>,
      <<"a", "1">>,
      <<"A", "1">>,
      <<>> }

FilterCodes ==
    { None, <<>>, <<" ">>, <<" ", " ">>,
      <<"1", "0", "0", "0">>,
      <<"2", "0", "0", "0">>,
      <<"0", "0">>,
      <<"a", "1">>,
      <<"A", "1">>,
      <<"N">>,
      <<"a", "n">>,
      <<"1", ".", "0", "0">>,
      <<" ", "1">> }

RECURSIVE SeqsUpTo(_, _)
SeqsUpTo(S, n) ==
    IF n = 0 THEN {<<>>}
    ELSE LET shorter == SeqsUpTo(S, n - 1)
         IN  shorter \cup {Append(t, e) : t \in shorter, e \in S}

\* a table: its rows in order, each with its branch cell and the rest of the row
\* (k stands for the other columns: the position the row had in the input)
Numbered(cells) == [i \in 1..Len(cells) |-> [SOL |-> cells[i], k |-> i]]

FilterTables == {Numbered(cells) : cells \in SeqsUpTo(FilterCells, MaxFilterRows)}

InitFlt ==
    /\ pc = "flt"
    /\ flt_df \in FilterTables
    /\ flt_pattern \in FilterCodes
    /\ flt_out = Idle
    /\ OnlyRuns("flt")

\* df_filtered = filter_by_sol_contains(df, col, pattern)
FilterBySol ==
    /\ pc = "flt"
    /\ flt_out' = filter_by_sol_contains(flt_df, flt_pattern)
    /\ pc' = "flt_done"
    /\ UNCHANGED <<flt_df, flt_pattern, othersFlt>>

NextFlt == FilterBySol

SpecFlt == InitFlt /\ [][NextFlt]_vars

(***************************************************************************)
(* HDV criterion 3 (hdv.py, run_hdv, tab3)                                 *)
(*                                                                         *)
(* A date or amount cell is the text read from the workbook: a well-formed *)
(* one carries the instant (in ticks) or the number it spells.             *)
(***************************************************************************)
DateText(t) == [txt |-> "date", v |-> t]
NumText(n) == [txt |-> "num", v |-> n]
JunkText == [txt |-> "junk", v |-> 0]
NanCell == [txt |-> "nan", v |-> 0]

\* a parsed value: a number or instant, or the missing marker (NaT / NaN)
Missing == [isna |-> TRUE, v |-> 0]
Value(n) == [isna |-> FALSE, v |-> n]

\* pd.to_datetime(series, errors="coerce") on one cell
to_datetime(cell) == IF cell.txt = "date" THEN Value(cell.v) ELSE Missing

\* pd.to_numeric(series, errors="coerce") on one cell
to_numeric(cell) == IF cell.txt = "num" THEN Value(cell.v) ELSE Missing

\* (a - b).dt.days: whole days of the difference, rounded down; NaN if either is NaT
DaysBetween(a, b) ==
    IF a.isna \/ b.isna THEN Missing ELSE Value((a.v - b.v) \div TicksPerDay)

Billion == 1000000000
CameraDays == 90

Mark(b) == IF b THEN "X" ELSE ""

\* line 498: "X" if x == 0
MoRutCungNgay(x) == Mark(~x.isna /\ x.v = 0)

\* (mutant) the 1-3 day window closed at 0
MoRut13Ngay_FromZero(x) == Mark(~x.isna /\ 0 <= x.v /\ x.v <= 3)

\* line 499: "X" if 0 < x <= 3
MoRut13Ngay(x) == Mark(~x.isna /\ 0 < x.v /\ x.v <= 3)

\* line 500: "X" if 4 <= x <= 7
MoRut47Ngay(x) == Mark(~x.isna /\ 4 <= x.v /\ x.v <= 7)

\* lines 501-503: "X" if pd.notna(x) and x > 1_000_000_000
GdLonHon1Ty(x) == Mark(~x.isna /\ x.v > Billion)

\* lines 506-508: "X" if pd.notna(x) and (today - x).days <= 90
TrongThoiHieuCamera(x, today) ==
    Mark(~x.isna /\ DaysBetween(Value(today), x).v <= CameraDays)

\* lines 490-492: the three typed columns
Tc3Parse(row) ==
    [row EXCEPT !.NGAY_HACH_TOAN = to_datetime(row.NGAY_HACH_TOAN),
                !.ACCT_OPN_DATE = to_datetime(row.ACCT_OPN_DATE),
                !.PART_CLOSE_AMT = to_numeric(row.PART_CLOSE_AMT)]

\* lines 496-508: the derived columns of one row
Tc3Rules(row, today) ==
    LET delta == DaysBetween(row.NGAY_HACH_TOAN, row.ACCT_OPN_DATE)
    IN  [k |-> row.k, SOL |-> row.SOL,
         NGAY_HACH_TOAN |-> row.NGAY_HACH_TOAN,
         ACCT_OPN_DATE |-> row.ACCT_OPN_DATE,
         PART_CLOSE_AMT |-> row.PART_CLOSE_AMT,
         CHENH_LECH_NGAY |-> delta,
         MO_RUT_CUNG_NGAY |-> MoRutCungNgay(delta),
         MO_RUT_1_3_NGAY |-> MoRut13Ngay(delta),
         MO_RUT_4_7_NGAY |-> MoRut47Ngay(delta),
         GD_LON_HON_1TY |-> GdLonHon1Ty(row.PART_CLOSE_AMT),
         TRONG_THOI_HIEU_CAMERA |-> TrongThoiHieuCamera(row.NGAY_HACH_TOAN, today)]

\* what a run leaves on the page: the result table (with the download), or one error
ShowTable(df) == [shown |-> "table", error |-> "", df |-> df]
ShowError(kind) == [shown |-> "error", error |-> kind, df |-> <<>>]

\* lines 481-520, for a workbook that has the four required columns under their
\* exact names (the schema stage is modelled by the strict-schema runs)
RunTc3(raw, df, today) ==
    LET sol == validate_sol_only(raw)
    IN  IF sol.raised # "" THEN ShowError("UserFacingError")
        ELSE LET parsed == [i \in 1..Len(df) |-> Tc3Parse(df[i])]
                 kept == filter_by_sol_contains(parsed, sol.value)
             IN  ShowTable([i \in 1..Len(kept) |-> Tc3Rules(kept[i], today)])

Tc3Sols == {<<"1", "0", "0", "0">>, <<"1", "0">>}

\* the open instant of the date-rule rows: noon of day 2 (so that a posting earlier
\* the same day gives a negative difference), or missing
OpenNoon == 2 * TicksPerDay + 1

Tc3Rows ==
    \* rows that exercise the date rules
    { [SOL |-> <<"1", "0", "0", "0">>, NGAY_HACH_TOAN |-> p, ACCT_OPN_DATE |-> o,
       PART_CLOSE_AMT |-> NumText(Billion)] :
          p \in {DateText(t) : t \in 0..MaxTick} \cup {JunkText, NanCell},
          o \in {DateText(OpenNoon), DateText(OpenNoon - 1), NanCell, JunkText} }
    \cup
    \* rows that exercise the branch filter and the amount rule
    { [SOL |-> b, NGAY_HACH_TOAN |-> DateText(OpenNoon), ACCT_OPN_DATE |-> DateText(OpenNoon),
       PART_CLOSE_AMT |-> a] :
          b \in {<<"2", "0", "0", "0">>, <<"x", "1", "0", "0", "0">>, NaN},
          a \in {NumText(Billion + 1), NumText(Billion), JunkText, NanCell} }

WithK(rows) == [i \in 1..Len(rows) |-> [k |-> i] @@ rows[i]]

Tc3Tables == {WithK(rows) : rows \in SeqsUpTo(Tc3Rows, MaxTc3Rows)}

\* today's midnight: day 5, day 95 or day 100
Tc3Todays == {5 * TicksPerDay, 95 * TicksPerDay, 100 * TicksPerDay}

InitTc3 ==
    /\ pc = "tc3"
    /\ tc3_raw \in Tc3Sols
    /\ tc3_df \in Tc3Tables
    /\ tc3_today \in Tc3Todays
    /\ tc3_out = Idle
    /\ OnlyRuns("tc3")

\* the "Chay TIEU CHI 3" button, pressed with a workbook uploaded
RunTieuChi3 ==
    /\ pc = "tc3"
    /\ tc3_out' = RunTc3(tc3_raw, tc3_df, tc3_today)
    /\ pc' = "tc3_done"
    /\ UNCHANGED <<tc3_raw, tc3_df, tc3_today, othersTc3>>

NextTc3 == RunTieuChi3

SpecTc3 == InitTc3 /\ [][NextTc3]_vars

(***************************************************************************)
(* Relaxed schema normalization: ensure_columns(df, cols)[cols] (DVKH.py)  *)
(*                                                                         *)
(* A table with a header is [columns, rows]: the column labels in order    *)
(* and, per row, the cells in the same order.  Labels may repeat.          *)
(***************************************************************************)
HasColumn(df, c) == \E j \in 1..Len(df.columns) : df.columns[j] = c

\* df[c] = "": a new last column, empty text in every row
AddEmptyColumn(df, c) ==
    [columns |-> Append(df.columns, c),
     rows |-> [i \in 1..Len(df.rows) |-> Append(df.rows[i], <<>>)]]

\* lines 97-101: for c in cols: if c not in df.columns: df[c] = ""
RECURSIVE ensure_columns(_, _)
ensure_columns(df, cols) ==
    IF cols = <<>> THEN df
    ELSE ensure_columns(
            IF HasColumn(df, Head(cols)) THEN df ELSE AddEmptyColumn(df, Head(cols)),
            Tail(cols))

\* the positions of label c in the header, in order
RECURSIVE PositionsOf(_, _, _)
PositionsOf(columns, c, j) ==
    IF j > Len(columns) THEN <<>>
    ELSE (IF columns[j] = c THEN <<j>> ELSE <<>>) \o PositionsOf(columns, c, j + 1)

\* the positions df[cols] takes: for each label of cols, every column so labelled
RECURSIVE SelectedPositions(_, _)
SelectedPositions(columns, cols) ==
    IF cols = <<>> THEN <<>>
    ELSE PositionsOf(columns, Head(cols), 1) \o SelectedPositions(columns, Tail(cols))

\* df[cols] with a list of labels; KeyError when a label is absent
SelectColumns(df, cols) ==
    IF \E j \in 1..Len(cols) : ~HasColumn(df, cols[j])
    THEN [error |-> "KeyError", columns |-> <<>>, rows |-> <<>>]
    ELSE LET pos == SelectedPositions(df.columns, cols)
         IN  [error |-> "",
              columns |-> [j \in 1..Len(pos) |-> df.columns[pos[j]]],
              rows |-> [i \in 1..Len(df.rows) |->
                          [j \in 1..Len(pos) |-> df.rows[i][pos[j]]]]]

\* df.columns = df.columns.str.lower()
LowerColumns(df) ==
    [df EXCEPT !.columns = [j \in 1..Len(df.columns) |-> Lower(df.columns[j])]]

\* the labels the relaxed runs draw headers and declared schemas from
RlxLabels == {<<"c", "i", "f">>, <<"C", "I", "F">>, <<"b", "r", "c", "d">>, <<"x">>}

IsInjective(sq) == \A i, j \in 1..Len(sq) : sq[i] = sq[j] => i = j

\* the reader never returns two columns with one label (pd.read_excel renames a
\* repeated header cell; pd.concat takes the union of the labels)
RlxHeaders == {h \in SeqsUpTo(RlxLabels, MaxInputCols) : IsInjective(h)}
RlxDeclared == {h \in SeqsUpTo(RlxLabels, MaxDeclared) : IsInjective(h)}

\* a table whose cell at row i, column j spells "<i><j>"
TableOf(header, n) ==
    [columns |-> header,
     rows |-> [i \in 1..n |-> [j \in 1..Len(header) |-> <<DigitChar(i), DigitChar(j)>>]]]

InitRlx ==
    /\ pc = "rlx"
    /\ rlx_path \in {"42a", "mapping"}
    /\ rlx_cols \in RlxDeclared
    /\ \E h \in RlxHeaders, n \in 0..MaxSchemaRows : rlx_read = TableOf(h, n)
    /\ rlx_df = Idle
    /\ rlx_out = Idle
    /\ OnlyRuns("rlx")

\* line 429: df_42a = ensure_columns(df_42a, cols_42a)[cols_42a]
\* ensure_columns works on the table object it is given, which the caller still holds
Normalize42a ==
    /\ pc = "rlx" /\ rlx_path = "42a"
    /\ rlx_df' = ensure_columns(rlx_read, rlx_cols)
    /\ rlx_out' = SelectColumns(rlx_df', rlx_cols)
    /\ pc' = "rlx_done"
    /\ UNCHANGED <<rlx_path, rlx_cols, rlx_read, othersRlx>>

\* lines 532-539: df_map.columns = df_map.columns.str.lower();
\* df_map = ensure_columns(df_map, need_cols)[need_cols]
NormalizeMapping ==
    /\ pc = "rlx" /\ rlx_path = "mapping"
    /\ rlx_df' = ensure_columns(LowerColumns(rlx_read), rlx_cols)
    /\ rlx_out' = SelectColumns(rlx_df', rlx_cols)
    /\ pc' = "rlx_done"
    /\ UNCHANGED <<rlx_path, rlx_cols, rlx_read, othersRlx>>

NextRlx == Normalize42a \/ NormalizeMapping

SpecRlx == InitRlx /\ [][NextRlx]_vars

(***************************************************************************)
(* Strict schema check: ensure_required_columns (error_utils.py) and the   *)
(* loading and selection around it (hdv.py, to_khai_hq.py)                 *)
(***************************************************************************)
\* col.strip().upper()
NormLabel(c) == Upper(Strip(c))

\* lines 32-36: the declared labels, normalized, that no normalized header label equals
require_columns(columns, required) ==
    {NormLabel(required[j]) : j \in 1..Len(required)}
        \ {NormLabel(columns[j]) : j \in 1..Len(columns)}

\* how a load-check-select sequence ends: the exception raised ("" for none), the
\* labels the UserFacingError message lists, and the columns selected
StrictOk(columns) == [error |-> "", missing |-> {}, columns |-> columns]
StrictFail(kind, missing) == [error |-> kind, missing |-> missing, columns |-> <<>>]

\* lines 39-43 followed by a selection of the declared labels by name
\* (df.loc[:, cols], df[cols], df["NGAY_HACH_TOAN"]): KeyError on an absent label
CheckThenSelect(columns, required) ==
    LET missing == require_columns(columns, required)
    IN  IF missing # {} THEN StrictFail("UserFacingError", missing)
        ELSE IF \E j \in 1..Len(required) :
                    \A i \in 1..Len(columns) : columns[i] # required[j]
        THEN StrictFail("KeyError", {})
        ELSE StrictOk(required)

\* pd.read_excel(f, dtype=str, usecols=cols): ValueError when a label of cols is not
\* in the header; otherwise only the columns so labelled are read
ReadUsecols(columns, cols) ==
    IF \E j \in 1..Len(cols) : \A i \in 1..Len(columns) : columns[i] # cols[j]
    THEN StrictFail("ValueError", {})
    ELSE StrictOk(SelectSeq(columns, LAMBDA c : \E j \in 1..Len(cols) : cols[j] = c))

\* hdv.py 156-164 and 169-177: read with usecols, check, select
LoadUsecols(columns, required) ==
    LET read == ReadUsecols(columns, required)
    IN  IF read.error # "" THEN read ELSE CheckThenSelect(read.columns, required)

\* hdv.py 397-403 and 484-491: read everything, check, select
LoadPlain(columns, required) == CheckThenSelect(columns, required)

\* to_khai_hq.py 62-69: normalize the labels, check, select
LoadNormalized(columns, required) ==
    CheckThenSelect([j \in 1..Len(columns) |-> NormLabel(columns[j])], required)

cols_ckh ==
    << <<"B", "R", "C", "D">>,
      <<"D", "E", "P", "T", "C", "D">>,
      <<"C", "U", "S", "T", "_", "T", "Y", "P", "E">>,
      <<"N", "M", "L", "O", "C">>,
      <<"C", "U", "S", "T", "S", "E", "Q">>,
      <<"B", "I", "R", "T", "H", "_", "D", "A", "Y">>,
      <<"I", "D", "X", "A", "C", "N", "O">>,
      <<"S", "C", "H", "M", "_", "N", "A", "M", "E">>,
      <<"T", "E", "R", "M", "_", "D", "A", "Y", "S">>,
      <<"G", "L", "_", "S", "U", "B">>,
      <<"C", "C", "Y", "C", "D">>,
      <<"C", "U", "R", "B", "A", "L", "_", "N", "T">>,
      <<"C", "U", "R", "B", "A", "L", "_", "V", "N">>,
      <<"O", "P", "N", "D", "T", "_", "F", "I", "R", "S", "T">>,
      <<"O", "P", "N", "D", "T", "_", "E", "F", "F", "E", "C", "T">>,
      <<"M", "A", "T", "D", "T">>,
      <<"L", "S", "_", "G", "H", "I", "S", "O">>,
      <<"L", "S", "_", "C", "O", "N", "G", "_", "B", "O">>,
      <<"P", "R", "O", "M", "O", "_", "C", "D">>,
      <<"K", "H", "_", "V", "I", "P">>,
      <<"C", "I", "F", "_", "O", "P", "N", "D", "T">>,
      <<"D", "P", "_", "M", "T", "H", "S">>,
      <<"D", "P", "_", "D", "A", "Y", "S">>,
      <<"P", "R", "O", "M", "O", "_", "N", "M">>,
      <<"P", "H", "A", "N", "K", "H", "U", "C", "_", "K", "H">> >>

cols_ftp_use == << <<"I", "D", "X", "A", "C", "N", "O">>,
      <<"L", "S", "_", "F", "T", "P">> >>

cols_tc2 ==
    << <<"B", "R", "C", "D">>,
      <<"D", "E", "P", "T", "C", "D">>,
      <<"C", "U", "S", "T", "_", "T", "Y", "P", "E">>,
      <<"C", "U", "S", "T", "S", "E", "Q">>,
      <<"N", "M", "L", "O", "C">>,
      <<"B", "I", "R", "T", "H", "_", "D", "A", "Y">>,
      <<"I", "D", "X", "A", "C", "N", "O">>,
      <<"S", "C", "H", "M", "_", "N", "A", "M", "E">>,
      <<"T", "E", "R", "M", "_", "D", "A", "Y", "S">>,
      <<"G", "L", "_", "S", "U", "B">>,
      <<"C", "C", "Y", "C", "D">>,
      <<"C", "U", "R", "B", "A", "L", "_", "N", "T">>,
      <<"C", "U", "R", "B", "A", "L", "_", "V", "N">>,
      <<"O", "P", "N", "D", "T", "_", "F", "I", "R", "S", "T">>,
      <<"O", "P", "N", "D", "T", "_", "E", "F", "F", "E", "C", "T">>,
      <<"M", "A", "T", "D", "T">>,
      <<"L", "S", "_", "G", "H", "I", "S", "O">>,
      <<"L", "S", "_", "C", "O", "N", "G", "_", "B", "O">>,
      <<"P", "R", "O", "M", "O", "_", "C", "D">>,
      <<"K", "H", "_", "V", "I", "P">>,
      <<"C", "I", "F", "_", "O", "P", "N", "D", "T">> >>

cols_tc3 ==
    << <<"N", "G", "A", "Y", "_", "H", "A", "C", "H", "_", "T", "O", "A", "N">>,
      <<"A", "C", "C", "T", "_", "O", "P", "N", "_", "D", "A", "T", "E">>,
      <<"P", "A", "R", "T", "_", "C", "L", "O", "S", "E", "_", "A", "M", "T">>,
      <<"S", "O", "L", "_", "I", "D">> >>

REQUIRED_COLUMNS ==
    << <<"D", "E", "C", "L", "A", "R", "A", "T", "I", "O", "N", "_", "D", "U", "E", "_", "D", "A", "T", "E">>,
      <<"D", "E", "C", "L", "A", "R", "A", "T", "I", "O", "N", "_", "R", "E", "C", "E", "I", "V", "E", "D", "_", "D", "A", "T", "E">> >>

StrictPipes == {"TC1_CKH", "TC1_FTP", "TC2", "TC3", "TKHQ"}

DeclaredOf(pipe) ==
    CASE pipe = "TC1_CKH" -> cols_ckh
      [] pipe = "TC1_FTP" -> cols_ftp_use
      [] pipe = "TC2" -> cols_tc2
      [] pipe = "TC3" -> cols_tc3
      [] pipe = "TKHQ" -> REQUIRED_COLUMNS

RunStrict(pipe, columns) ==
    CASE pipe \in {"TC1_CKH", "TC1_FTP"} -> LoadUsecols(columns, DeclaredOf(pipe))
      [] pipe \in {"TC2", "TC3"} -> LoadPlain(columns, DeclaredOf(pipe))
      [] pipe = "TKHQ" -> LoadNormalized(columns, DeclaredOf(pipe))

\* a header: the declared labels in order, up to MaxOddCols of them left out or
\* spelled in lower case or with a leading blank, and possibly one more column
OddForms == {"absent", "lower", "padded"}

HeaderCell(label, form) ==
    CASE form = "exact" -> <<label>>
      [] form = "absent" -> <<>>
      [] form = "lower" -> <<Lower(label)>>
      [] form = "padded" -> <<<<" ">> \o label>>

RECURSIVE FormsAfter(_, _)
FormsAfter(forms, odd) ==
    IF odd = <<>> THEN forms
    ELSE FormsAfter([forms EXCEPT ![Head(odd)[1]] = Head(odd)[2]], Tail(odd))

RECURSIVE HeaderFrom(_, _, _)
HeaderFrom(declared, forms, j) ==
    IF j > Len(declared) THEN <<>>
    ELSE HeaderCell(declared[j], forms[j]) \o HeaderFrom(declared, forms, j + 1)

ExtraLabel == <<"E", "X", "T", "R", "A">>

HeadersOf(declared) ==
    LET n == Len(declared)
        base == {HeaderFrom(declared, FormsAfter([j \in 1..n |-> "exact"], odd), 1) :
                    odd \in SeqsUpTo((1..n) \X OddForms, MaxOddCols)}
    IN  base \cup {Append(h, ExtraLabel) : h \in base}

InitStr ==
    /\ pc = "str"
    /\ str_pipe \in StrictPipes
    /\ str_header \in HeadersOf(DeclaredOf(str_pipe))
    /\ str_out = Idle
    /\ OnlyRuns("str")

\* the workbook is loaded, checked with ensure_required_columns and its declared
\* columns are selected
LoadStrict ==
    /\ pc = "str"
    /\ str_out' = RunStrict(str_pipe, str_header)
    /\ pc' = "str_done"
    /\ UNCHANGED <<str_pipe, str_header, othersStr>>

NextStr == LoadStrict

SpecStr == InitStr /\ [][NextStr]_vars

(***************************************************************************)
(* DVKH criteria 1-3: process_uyquyen_sms_scm (DVKH.py 142-383)            *)
(***************************************************************************)
\* the positions of sq, in order, whose element satisfies the mask
RECURSIVE Keep(_, _, _)
Keep(sq, mask, i) ==
    IF i > Len(sq) THEN <<>>
    ELSE (IF mask[i] THEN <<sq[i]>> ELSE <<>>) \o Keep(sq, mask, i + 1)

\* re.split(r"[-,]", s)
RECURSIVE ReSplit(_, _)
ReSplit(s, cur) ==
    IF s = <<>> THEN <<cur>>
    ELSE IF Head(s) \in {"-", ","} THEN <<cur>> \o ReSplit(Tail(s), <<>>)
    ELSE ReSplit(Tail(s), Append(cur, Head(s)))

\* re.search(r"chu\s*ky|chuky|cky", s) with case=False
SignaturePattern(s) ==
    LET t == Lower(s)
    IN  \/ Contains(t, <<"c", "k", "y">>)
        \/ \E i \in 1..Len(t), j \in 1..Len(t) :
              /\ j >= i + 3 /\ j + 1 <= Len(t)
              /\ SubSeq(t, i, i + 2) = <<"c", "h", "u">>
              /\ SubSeq(t, j, j + 1) = <<"k", "y">>
              /\ \A m \in (i + 3)..(j - 1) : t[m] \in SpaceChars

\* line 202: DESCRIPTION.astype(str).str.contains(..., case=False, na=False)
DescriptionMask(row) == SignaturePattern(AsTypeStr(row.DESCRIPTION))

\* line 211
keywords ==
    { <<"C", "O", "N", "G", " ", "T", "Y">>,
      <<"C", "T", "Y">>,
      <<"C", "O", "N", "G", "T", "Y">>,
      <<"C", "Ô", "N", "G", " ", "T", "Y">>,
      <<"C", "Ô", "N", "G", "T", "Y">> }

\* line 212: the rows kept are those whose grantor name holds no keyword
CorporateMask(row) ==
    \E kw \in keywords : Contains(Upper(AsTypeStr(row.NGUOI_UY_QUYEN)), kw)

\* re.fullmatch(r"[A-Z ]{3,}", name)
IsUpperName(name) ==
    Len(name) >= 3 /\ \A i \in 1..Len(name) : name[i] \in DOMAIN LowerOf \cup {" "}

\* lines 215-221
extract_name(value) ==
    LET parts == ReSplit(Str(value), <<>>)
        names == [i \in 1..Len(parts) |-> Strip(parts[i])]
    IN  IF \E i \in 1..Len(names) : IsUpperName(names[i])
        THEN names[CHOOSE i \in 1..Len(names) :
                      /\ IsUpperName(names[i])
                      /\ \A j \in 1..(i - 1) : ~IsUpperName(names[j])]
        ELSE value

\* pd.to_datetime(text, errors="coerce") followed by .dt.year, for the month/day/year
\* texts of the workbooks: the year, or 0 for NaT (no text, junk, a year no Timestamp holds)
MinYear == 1678
MaxYear == 2261
YearOf(cell) ==
    IF /\ ~IsNa(cell) /\ Len(cell) = 10 /\ cell[3] = "/" /\ cell[6] = "/"
       /\ \A i \in {1, 2, 4, 5, 7, 8, 9, 10} : cell[i] \in AsciiDigits
    THEN LET y == 1000 * DigitVal(cell[7]) + 100 * DigitVal(cell[8])
                    + 10 * DigitVal(cell[9]) + DigitVal(cell[10])
         IN  IF y >= MinYear /\ y <= MaxYear THEN y ELSE 0
    ELSE 0

\* lines 229-231: drop_duplicates(subset=dedup_cols, keep="first")
DedupKey(row) == <<row.PRIMARY_SOL_ID, row.TK_DUOC_UY_QUYEN, row.NGUOI_DUOC_UY_QUYEN>>
DropDuplicates(df) ==
    Keep(df, [i \in 1..Len(df) |-> \A j \in 1..(i - 1) : DedupKey(df[j]) # DedupKey(df[i])], 1)

\* lines 202-231: df_a as it enters the join
PrepareMuc30(df) ==
    LET signed == Keep(df, [i \in 1..Len(df) |-> DescriptionMask(df[i])], 1)
        persons == Keep(signed, [i \in 1..Len(signed) |-> ~CorporateMask(signed[i])], 1)
        named == [i \in 1..Len(persons) |->
                    [persons[i] EXCEPT !.NGUOI_DUOC_UY_QUYEN = extract_name(@)]]
    IN  DropDuplicates(named)

\* lines 188-195: df_b, the CKH rows followed by the KKH rows
DepositUnion(ckh, kkh) == ckh \o kkh

\* DataFrame.merge(right, left_on, right_on, how="left") for one left row: one row per
\* right row with the same key text, in right order, or one row with CUSTSEQ missing
RECURSIVE MatchesOf(_, _, _)
MatchesOf(row, right, j) ==
    IF j > Len(right) THEN <<>>
    ELSE (IF AsTypeStr(right[j].IDXACNO) = AsTypeStr(row.TK_DUOC_UY_QUYEN)
          THEN <<[left |-> row, CUSTSEQ |-> right[j].CUSTSEQ]>> ELSE <<>>)
         \o MatchesOf(row, right, j + 1)

RECURSIVE LeftJoin(_, _, _)
LeftJoin(left, right, i) ==
    IF i > Len(left) THEN <<>>
    ELSE LET m == MatchesOf(left[i], right, 1)
         IN  (IF m = <<>> THEN <<[left |-> left[i], CUSTSEQ |-> NaN]>> ELSE m)
             \o LeftJoin(left, right, i + 1)

\* lines 233-241
MergeCif(df_a, df_b) ==
    IF df_b # <<>> THEN LeftJoin(df_a, df_b, 1)
    ELSE [i \in 1..Len(df_a) |-> [left |-> df_a[i], CUSTSEQ |-> NaN]]

\* (mutant) the fill applied only to names borne by three rows or more
FillCif_FromThree(merged, cif) ==
    [i \in 1..Len(merged) |->
        LET nguoi == merged[i].left.NGUOI_UY_QUYEN
            group == {j \in 1..Len(merged) : merged[j].left.NGUOI_UY_QUYEN = nguoi}
            actuals == {j \in group : cif[j] # NA}
        IN  IF ~IsNa(nguoi) /\ Cardinality(group) >= 3 /\ actuals # {} /\ cif[i] = NA
            THEN cif[CHOOSE j \in actuals : \A m \in actuals : j <= m]
            ELSE cif[i]]

\* (mutant) the last CIF found in the group instead of the first
FillCif_Last(merged, cif) ==
    [i \in 1..Len(merged) |->
        LET nguoi == merged[i].left.NGUOI_UY_QUYEN
            group == {j \in 1..Len(merged) : merged[j].left.NGUOI_UY_QUYEN = nguoi}
            actuals == {j \in group : cif[j] # NA}
        IN  IF ~IsNa(nguoi) /\ Cardinality(group) >= 2 /\ actuals # {} /\ cif[i] = NA
            THEN cif[CHOOSE j \in actuals : \A m \in actuals : j >= m]
            ELSE cif[i]]

\* lines 259-270: within a grantor name borne by two rows or more, the rows without a
\* CIF take the first CIF found in the group
FillCif(merged, cif) ==
    [i \in 1..Len(merged) |->
        LET nguoi == merged[i].left.NGUOI_UY_QUYEN
            group == {j \in 1..Len(merged) : merged[j].left.NGUOI_UY_QUYEN = nguoi}
            actuals == {j \in group : cif[j] # NA}
        IN  IF ~IsNa(nguoi) /\ Cardinality(group) >= 2 /\ actuals # {} /\ cif[i] = NA
            THEN cif[CHOOSE j \in actuals : \A m \in actuals : j <= m]
            ELSE cif[i]]

\* lines 278-289
phan_loai_tk(tk, ckh, kkh) ==
    LET set_ckh == {AsTypeStr(ckh[j].CUSTSEQ) : j \in 1..Len(ckh)}
        set_kkh == {AsTypeStr(kkh[j].IDXACNO) : j \in 1..Len(kkh)}
        t == Str(tk)
    IN  IF t \in set_ckh THEN "CKH" ELSE IF t \in set_kkh THEN "KKH" ELSE "NA"

\* lines 292-298: YEAR_DIFF.fillna(-1)
NoEndYears == 99
LongYears == 50
YearDiff(row) ==
    IF YearOf(row.EXPIRYDATE) = 0 \/ YearOf(row.EFFECTIVEDATE) = 0 THEN -1
    ELSE YearOf(row.EXPIRYDATE) - YearOf(row.EFFECTIVEDATE)

\* (mutant) the SMS accounts without the customer-type filter of line 335
tk_sms_set_AnyType(sms) ==
    {AsTypeStr(sms[j].FORACID) : j \in
        {j \in 1..Len(sms) : IsDigit(AsTypeStr(sms[j].FORACID))}}

\* lines 331-334 and 363-364: the accounts registered for SMS
tk_sms_set(sms) ==
    {AsTypeStr(sms[j].FORACID) : j \in
        {j \in 1..Len(sms) : /\ IsDigit(AsTypeStr(sms[j].FORACID))
                             /\ Upper(AsTypeStr(sms[j].CUSTTPCD)) # <<"K", "H", "D", "N">>}}

\* lines 344-345, 351 and 366-367: the customers registered for SCM010
cif_scm10_set(scm) == {AsTypeStr(scm[j].CIF_ID) : j \in 1..Len(scm)}

\* (mutant) the recipients that two rows or more bear, whatever their grantors
nguoi_nhan_nhieu_uq_ByRows(rows) ==
    {AsTypeStr(rows[i].NGUOI_DUOC_UY_QUYEN) : i \in
        {i \in 1..Len(rows) :
            /\ ~IsNa(rows[i].NGUOI_DUOC_UY_QUYEN)
            /\ Cardinality({j \in 1..Len(rows) :
                   rows[j].NGUOI_DUOC_UY_QUYEN = rows[i].NGUOI_DUOC_UY_QUYEN}) >= 2}}

\* lines 374-381: the recipients named by two grantors or more
nguoi_nhan_nhieu_uq(rows) ==
    {AsTypeStr(rows[i].NGUOI_DUOC_UY_QUYEN) : i \in
        {i \in 1..Len(rows) :
            /\ ~IsNa(rows[i].NGUOI_DUOC_UY_QUYEN)
            /\ Cardinality({rows[j].NGUOI_UY_QUYEN : j \in
                   {j \in 1..Len(rows) :
                       /\ rows[j].NGUOI_DUOC_UY_QUYEN = rows[i].NGUOI_DUOC_UY_QUYEN
                       /\ ~IsNa(rows[j].NGUOI_UY_QUYEN)}}) >= 2}}

\* lines 142-383: the rows of merged and those of df_tc3 with their marker, together
\* with two locals of the run: df_a as it entered the join, and the CIF column as
\* norm_custseq left it before the fill
process_uyquyen_sms_scm(ckh, kkh, muc30, sms, scm) ==
    LET df_a == PrepareMuc30(muc30)
        joined == MergeCif(df_a, DepositUnion(ckh, kkh))
        cif_raw == [i \in 1..Len(joined) |-> norm_custseq(joined[i].CUSTSEQ)]
        cif == FillCif(joined, cif_raw)
        merged == [i \in 1..Len(joined) |->
            LET row == joined[i].left
            IN  [k |-> row.k,
                 PRIMARY_SOL_ID |-> row.PRIMARY_SOL_ID,
                 NGUOI_UY_QUYEN |-> row.NGUOI_UY_QUYEN,
                 NGUOI_DUOC_UY_QUYEN |-> row.NGUOI_DUOC_UY_QUYEN,
                 TK_DUOC_UY_QUYEN |->
                     IF ckh \o kkh # <<>> THEN AsTypeStr(row.TK_DUOC_UY_QUYEN)
                     ELSE row.TK_DUOC_UY_QUYEN,
                 CIF_NGUOI_UY_QUYEN |-> cif[i],
                 LOAI_TK |-> phan_loai_tk(row.TK_DUOC_UY_QUYEN, ckh, kkh),
                 KHONG_NHAP_TGIAN_UQ |-> Mark(YearDiff(row) = NoEndYears),
                 UQ_TREN_50_NAM |-> Mark(YearDiff(row) >= LongYears),
                 SMS |-> Mark(AsTypeStr(row.TK_DUOC_UY_QUYEN) \in tk_sms_set(sms)),
                 SCM010 |-> Mark(cif[i] \in cif_scm10_set(scm))]]
        nhieu == nguoi_nhan_nhieu_uq(merged)
    IN  [df_a |-> df_a, cif_raw |-> cif_raw, merged |-> merged,
         tc3 |-> [i \in 1..Len(merged) |->
                    Mark(AsTypeStr(merged[i].NGUOI_DUOC_UY_QUYEN) \in nhieu)]]

\* the rows the uploads are made of
UqBase ==
    [DESCRIPTION |-> <<"c", "h", "u", " ", "k", "y">>, NGUOI_UY_QUYEN |-> <<"A", "N">>,
     NGUOI_DUOC_UY_QUYEN |-> <<"B", "I", "N", "H">>, PRIMARY_SOL_ID |-> <<"1", "0", "0", "0">>,
     TK_DUOC_UY_QUYEN |-> <<"1", "2", "3", "4", "5">>, EFFECTIVEDATE |-> <<"0", "1", "/", "1", "5", "/", "2", "0", "2", "0">>,
     EXPIRYDATE |-> <<"0", "1", "/", "1", "5", "/", "2", "0", "2", "1">>]

Muc30Rows ==
    {[UqBase EXCEPT !.TK_DUOC_UY_QUYEN = tk] :
        tk \in {<<"1", "2", "3", "4", "5">>, <<"7", "7", "7">>, NaN}}
    \cup {[UqBase EXCEPT !.DESCRIPTION = d] :
        d \in {<<"M", "a", "u", " ", "C", "H", "U", " ", " ", "K", "Y">>, <<"v", "a", "n", " ", "t", "a", "y">>}}
    \cup {[UqBase EXCEPT !.NGUOI_UY_QUYEN = n] :
        n \in {<<"C", "t", "y", " ", "A", "N">>, <<"B", "A">>}}
    \cup {[UqBase EXCEPT !.NGUOI_DUOC_UY_QUYEN = n] :
        n \in {<<"1", "2", "3", " ", "-", " ", "B", "I", "N", "H">>, <<"C", "u">>}}
    \cup {[UqBase EXCEPT !.NGUOI_UY_QUYEN = <<"B", "A">>, !.TK_DUOC_UY_QUYEN = <<"7", "7", "7">>]}
    \cup {[UqBase EXCEPT !.NGUOI_UY_QUYEN = NaN, !.TK_DUOC_UY_QUYEN = <<"7", "7", "7">>],
          [UqBase EXCEPT !.NGUOI_UY_QUYEN = NaN, !.NGUOI_DUOC_UY_QUYEN = NaN]}
    \cup {[UqBase EXCEPT !.EFFECTIVEDATE = <<"0", "1", "/", "1", "5", "/", "2", "0", "0", "0">>, !.EXPIRYDATE = e] :
        e \in {<<"1", "2", "/", "3", "1", "/", "2", "0", "9", "9">>, <<"1", "2", "/", "3", "1", "/", "2", "0", "5", "0">>, NaN}}

DepositRows ==
    {[IDXACNO |-> <<"1", "2", "3", "4", "5">>, CUSTSEQ |-> c] :
        c \in {<<"5", "5", "5">>, <<"5", "5", "6", ".", "0">>, NaN}}
    \cup {[IDXACNO |-> a, CUSTSEQ |-> <<"5", "5", "5">>] :
        a \in {<<"1", "2", "3", "4", "5", ".", "0">>, <<" ", "1", "2", "3", "4", "5">>}}
    \cup {[IDXACNO |-> <<"5", "5", "5">>, CUSTSEQ |-> <<"1", "2", "3", "4", "5">>]}

SmsRows ==
    {[FORACID |-> <<"1", "2", "3", "4", "5">>, CUSTTPCD |-> t] : t \in {<<"K", "H", "C", "N">>, <<"k", "h", "d", "n">>}}
    \cup {[FORACID |-> <<"1", "2", "3", "4", "5", ".", "0">>, CUSTTPCD |-> NaN]}

ScmRows == {[CIF_ID |-> c] : c \in {<<"5", "5", "5">>, <<"5", "5", "5", ".", "0">>, NaN}}

\* the rows of a workbook with k, the position each had when read
Indexed(rows) == [i \in 1..Len(rows) |-> [k |-> i] @@ rows[i]]

\* the larger uploads: two authorizations of one grantor, over account 12345 (a CKH
\* account) and account 777 (a KKH account), both of customer 555
PairMuc30 == <<UqBase, [UqBase EXCEPT !.TK_DUOC_UY_QUYEN = <<"7", "7", "7">>]>>
PairCkh == <<[IDXACNO |-> <<"1", "2", "3", "4", "5">>, CUSTSEQ |-> <<"5", "5", "5">>]>>
PairKkh == <<[IDXACNO |-> <<"7", "7", "7">>, CUSTSEQ |-> <<"5", "5", "5">>]>>
PairSmsRows == SmsRows \cup {[FORACID |-> <<"7", "7", "7">>, CUSTTPCD |-> <<"K", "H", "C", "N">>]}

\* the uploads in which one grantor has accounts with different customer numbers
ConflictMuc30 ==
    {UqBase, [UqBase EXCEPT !.TK_DUOC_UY_QUYEN = <<"7", "7", "7">>],
     [UqBase EXCEPT !.NGUOI_UY_QUYEN = <<"B", "A">>, !.TK_DUOC_UY_QUYEN = <<"7", "7", "7">>]}
ConflictDeposits ==
    DepositRows \cup {[IDXACNO |-> <<"7", "7", "7">>, CUSTSEQ |-> <<"8", "8", "8">>]}

InitUq ==
    /\ pc = "uq"
    /\ \/ /\ uq_a \in {Indexed(rows) : rows \in SeqsUpTo(Muc30Rows, MaxUqRows)}
          /\ uq_ckh \in SeqsUpTo(DepositRows, MaxUqRows - Len(uq_a))
          /\ uq_kkh \in SeqsUpTo(DepositRows, MaxUqRows - Len(uq_a) - Len(uq_ckh))
          /\ uq_sms \in SeqsUpTo(SmsRows, MaxUqRows - Len(uq_a) - Len(uq_ckh) - Len(uq_kkh))
          /\ uq_scm \in SeqsUpTo(ScmRows,
                          MaxUqRows - Len(uq_a) - Len(uq_ckh) - Len(uq_kkh) - Len(uq_sms))
       \/ /\ uq_a = Indexed(PairMuc30)
          /\ uq_ckh = PairCkh
          /\ uq_kkh = PairKkh
          /\ uq_sms \in SeqsUpTo(PairSmsRows, MaxUqRows - 1)
          /\ uq_scm \in SeqsUpTo(ScmRows, MaxUqRows - 1 - Len(uq_sms))
       \/ /\ uq_a \in {Indexed(<<r1, r2>>) : r1 \in ConflictMuc30, r2 \in ConflictMuc30}
          /\ uq_ckh \in {<<d1, d2>> : d1 \in ConflictDeposits, d2 \in ConflictDeposits}
                         \cup {<<d1, d2, d3>> : d1 \in ConflictDeposits,
                                 d2 \in ConflictDeposits, d3 \in ConflictDeposits}
          /\ uq_kkh = <<>>
          /\ uq_sms = <<>>
          /\ uq_scm = <<>>
    /\ uq_out = Idle
    /\ OnlyRuns("uq")

\* one run of criteria 1-3 on the uploads
RunUyQuyen ==
    /\ pc = "uq"
    /\ uq_out' = process_uyquyen_sms_scm(uq_ckh, uq_kkh, uq_a, uq_sms, uq_scm)
    /\ pc' = "uq_done"
    /\ UNCHANGED <<uq_a, uq_ckh, uq_kkh, uq_sms, uq_scm, othersUq>>

NextUq == RunUyQuyen

SpecUq == InitUq /\ [][NextUq]_vars

(***************************************************************************)
(* DVKH criterion 4: process_tieuchi_4_5 (DVKH.py 386-526)                 *)
(***************************************************************************)
\* DataFrame.merge(how="left") on key columns, by position: in left order, one pair
\* per right row whose key equals the left key, in right order, or one pair with
\* r = 0 when there is none (a missing key equals a missing key, and no text)
RECURSIVE PairsOf(_, _, _, _)
PairsOf(i, lkey, rkeys, j) ==
    IF j > Len(rkeys) THEN <<>>
    ELSE (IF rkeys[j] = lkey THEN <<[l |-> i, r |-> j]>> ELSE <<>>)
         \o PairsOf(i, lkey, rkeys, j + 1)

RECURSIVE JoinPairs(_, _, _)
JoinPairs(lkeys, rkeys, i) ==
    IF i > Len(lkeys) THEN <<>>
    ELSE LET m == PairsOf(i, lkeys[i], rkeys, 1)
         IN  (IF m = <<>> THEN <<[l |-> i, r |-> 0]>> ELSE m) \o JoinPairs(lkeys, rkeys, i + 1)

\* drop_duplicates(key): the rows whose key no earlier row has
FirstPerKey(keys) == [i \in 1..Len(keys) |-> \A j \in 1..(i - 1) : keys[j] # keys[i]]

\* line 441
exclude_keywords ==
    { <<"K", "Y", " ", "Q", "U", "Y">>,
      <<"G", "I", "A", "I", " ", "N", "G", "A", "N">>,
      <<"C", "H", "I", " ", "L", "U", "O", "N", "G">>,
      <<"T", "K", "T", "T", " ", "T", "H", "E">>,
      <<"T", "R", "U", "N", "G", " ", "G", "I", "A", "N">> }

\* lines 419-447: the branch filter, the KHCN filter and the excluded schemes
Filter42a(df, chi_nhanh) ==
    LET branch == IF chi_nhanh = <<>> THEN df
                  ELSE Keep(df, [i \in 1..Len(df) |->
                           ReSearch(Upper(AsTypeStr(df[i].BRCD)), chi_nhanh)], 1)
        khcn == Keep(branch, [i \in 1..Len(branch) |->
                    Upper(AsTypeStr(branch[i].CUST_TYPE)) = <<"K", "H", "C", "N">>], 1)
    IN  Keep(khcn, [i \in 1..Len(khcn) |->
            ~\E kw \in exclude_keywords :
                Contains(Upper(AsTypeStr(khcn[i].SCHM_NAME)), kw)], 1)

\* safe_to_datetime(...).dt.strftime("%m/%d/%Y"): the date text, or missing
DateOrMissing(cell) == IF YearOf(cell) = 0 THEN NaN ELSE cell

\* (mutant) a drop that leaves the column in
DropColumns_Keep(row, columns) == row

\* df.drop(columns=..., errors="ignore") for one row (lines 470, 483, 526): the merge
\* brought the key column of the lookup, the drop takes it out again; the staff-list
\* key "Ma so CIF" is not dropped (line 502)
DropColumns(row, columns) == [c \in DOMAIN row \ columns |-> row[c]]

\* lines 465-470: one row of the merge on CUSTSEQ = MACIF; m is the pair of positions
\* of the left row and of the matched lookup row (0 for none)
Merge42bCif(left, byCif, m) ==
    DropColumns(left[m.l] @@
        [MACIF |-> IF m.r = 0 THEN NaN ELSE AsTypeStr(byCif[m.r].MACIF),
         CHARGELEVELCODE_CUA_CIF |->
            IF m.r = 0 THEN NaN ELSE byCif[m.r].CHARGELEVELCODE_CIF],
        {"MACIF"})

\* lines 478-483: one row of the merge on IDXACNO = STKKH
Merge42bTk(left, byTk, m) ==
    DropColumns(left[m.l] @@
        [STKKH |-> IF m.r = 0 THEN NaN ELSE AsTypeStr(byTk[m.r].STKKH),
         CHARGELEVELCODE_CUA_TK |->
            IF m.r = 0 THEN NaN ELSE byTk[m.r].CHARGELEVELCODE_TK],
        {"STKKH"})

\* lines 494-502: one row of the merge on CUSTSEQ = "Ma so CIF"; nothing is dropped
Merge42c(left, df_42c, m) ==
    left[m.l] @@
        [MA_SO_CIF |-> IF m.r = 0 THEN NaN ELSE df_42c[m.r].MA_SO_CIF,
         MA_NV |-> IF m.r = 0 THEN NaN ELSE df_42c[m.r].MA_NV]

\* lines 486-489 and 508-526: the staff-code mark, then one row of the merge on
\* CUSTSEQ = CIF of the resigned list and the columns taken from it
Merge42d(left, df_42d, m) ==
    DropColumns(left[m.l] @@
        [TK_GAN_CODE_UU_DAI_CBNV |->
             Mark(left[m.l].CHARGELEVELCODE_CUA_TK = <<"N", "V", "E", "I", "B">>),
         CIF |-> IF m.r = 0 THEN NaN ELSE df_42d[m.r].CIF,
         CBNV_NGHI_VIEC |-> Mark(m.r # 0),
         NGAY_NGHI_VIEC |->
             IF m.r = 0 THEN NaN ELSE DateOrMissing(df_42d[m.r].NGAY_THOI_VIEC)],
        {"CIF"})

\* lines 458-526: the four left joins and the columns computed from them
JoinChain(df, df_42b, df_42c, df_42d) ==
    LET a0 == [i \in 1..Len(df) |->
                  [df[i] EXCEPT !.CUSTSEQ = AsTypeStr(@), !.IDXACNO = AsTypeStr(@)]]
        macif == [j \in 1..Len(df_42b) |-> AsTypeStr(df_42b[j].MACIF)]
        stkkh == [j \in 1..Len(df_42b) |-> AsTypeStr(df_42b[j].STKKH)]
        byCif == Keep(df_42b, FirstPerKey(macif), 1)
        byTk == Keep(df_42b, FirstPerKey(stkkh), 1)
        p1 == JoinPairs([i \in 1..Len(a0) |-> a0[i].CUSTSEQ],
                        [j \in 1..Len(byCif) |-> AsTypeStr(byCif[j].MACIF)], 1)
        a1 == [n \in 1..Len(p1) |-> Merge42bCif(a0, byCif, p1[n])]
        p2 == JoinPairs([i \in 1..Len(a1) |-> a1[i].IDXACNO],
                        [j \in 1..Len(byTk) |-> AsTypeStr(byTk[j].STKKH)], 1)
        a2 == [n \in 1..Len(p2) |-> Merge42bTk(a1, byTk, p2[n])]
        p3 == JoinPairs([i \in 1..Len(a2) |-> a2[i].CUSTSEQ],
                        [j \in 1..Len(df_42c) |-> df_42c[j].MA_SO_CIF], 1)
        a3 == [n \in 1..Len(p3) |-> Merge42c(a2, df_42c, p3[n])]
        p4 == JoinPairs([i \in 1..Len(a3) |-> a3[i].CUSTSEQ],
                        [j \in 1..Len(df_42d) |-> df_42d[j].CIF], 1)
    IN  [n \in 1..Len(p4) |-> Merge42d(a3, df_42d, p4[n])]

\* lines 386-526: df_42a_final
process_tieuchi_4(df_42a, df_42b, df_42c, df_42d, chi_nhanh) ==
    JoinChain(Filter42a(df_42a, chi_nhanh), df_42b, df_42c, df_42d)

\* the rows the uploads are made of (MA_SO_CIF, MA_NV and NGAY_THOI_VIEC stand for the
\* columns "Mã số CIF", "Mã NV" and "Ngày thôi việc")
Base42a ==
    [BRCD |-> <<"1", "0", "0", "0">>, CUST_TYPE |-> <<"K", "H", "C", "N">>, CUSTSEQ |-> <<"C", "1">>,
     IDXACNO |-> <<"A", "1">>, SCHM_NAME |-> <<"T", "K", "T", "T">>]

Rows42a ==
    {Base42a}
    \cup {[Base42a EXCEPT !.BRCD = <<"2", "0", "0", "0">>]}
    \cup {[Base42a EXCEPT !.CUST_TYPE = t] : t \in {<<"k", "h", "c", "n">>, <<"K", "H", "D", "N">>}}
    \cup {[Base42a EXCEPT !.CUSTSEQ = c] : c \in {<<"C", "2">>, NaN}}
    \cup {[Base42a EXCEPT !.IDXACNO = <<"A", "2">>]}
    \cup {[Base42a EXCEPT !.SCHM_NAME = <<"T", "k", " ", "k", "y", " ", "q", "u", "y">>]}

Rows42b ==
    {[MACIF |-> <<"C", "1">>, STKKH |-> <<"A", "1">>, CHARGELEVELCODE_CIF |-> <<"L", "1">>,
      CHARGELEVELCODE_TK |-> <<"N", "V", "E", "I", "B">>],
     [MACIF |-> <<"C", "1">>, STKKH |-> <<"A", "2">>, CHARGELEVELCODE_CIF |-> <<"L", "2">>,
      CHARGELEVELCODE_TK |-> <<"S", "T", "D">>],
     [MACIF |-> NaN, STKKH |-> <<"A", "1">>, CHARGELEVELCODE_CIF |-> <<"L", "3">>,
      CHARGELEVELCODE_TK |-> NaN]}

Rows42c ==
    {[MA_SO_CIF |-> <<"C", "1">>, MA_NV |-> nv] : nv \in {<<"N", "V", "1">>, <<"N", "V", "2">>}}
    \cup {[MA_SO_CIF |-> NaN, MA_NV |-> <<"N", "V", "3">>]}

Rows42d ==
    {[CIF |-> <<"C", "1">>, NGAY_THOI_VIEC |-> d] : d \in {<<"0", "6", "/", "3", "0", "/", "2", "0", "2", "4">>, <<"c", "h", "u", "a", " ", "r", "o">>}}
    \cup {[CIF |-> <<"C", "2">>, NGAY_THOI_VIEC |-> NaN]}

BranchCodes == {<<>>, <<"1", "0", "0", "0">>}

InitTc4 ==
    /\ pc = "tc4"
    /\ tc4_42a \in {Indexed(rows) : rows \in SeqsUpTo(Rows42a, MaxTc4Rows) \ {<<>>}}
    /\ tc4_42b \in SeqsUpTo(Rows42b, MaxTc4Rows - Len(tc4_42a))
    /\ tc4_42c \in SeqsUpTo(Rows42c, MaxTc4Rows - Len(tc4_42a) - Len(tc4_42b))
    /\ tc4_42d \in SeqsUpTo(Rows42d,
                     MaxTc4Rows - Len(tc4_42a) - Len(tc4_42b) - Len(tc4_42c))
    /\ tc4_cn \in BranchCodes
    /\ tc4_out = Idle
    /\ OnlyRuns("tc4")

\* one run of criterion 4 on the uploads
RunTieuChi4 ==
    /\ pc = "tc4"
    /\ tc4_out' = process_tieuchi_4(tc4_42a, tc4_42b, tc4_42c, tc4_42d, tc4_cn)
    /\ pc' = "tc4_done"
    /\ UNCHANGED <<tc4_42a, tc4_42b, tc4_42c, tc4_42d, tc4_cn, othersTc4>>

NextTc4 == RunTieuChi4

SpecTc4 == InitTc4 /\ [][NextTc4]_vars

(***************************************************************************)
(* HDV criterion 1: run_hdv, tab 1 (hdv.py 129-263)                        *)
(***************************************************************************)
\* DataFrame.drop_duplicates(): the rows no earlier row equals in every column
DropDuplicateRows(df) == Keep(df, [i \in 1..Len(df) |-> \A j \in 1..(i - 1) : df[j] # df[i]], 1)

\* lines 225-235: the comparisons of parsed rates (a missing rate differs from
\* everything and exceeds nothing)
RateDiffers(a, b) == a.isna \/ b.isna \/ a.v # b.v
RateExceeds(a, b) == ~a.isna /\ ~b.isna /\ a.v > b.v

\* lines 204-248: the two left joins on IDXACNO, the numeric conversion and the rules
Tc1Merge(df_filtered, df_ftp, df_tt) ==
    LET p1 == JoinPairs([i \in 1..Len(df_filtered) |-> df_filtered[i].IDXACNO],
                        [j \in 1..Len(df_ftp) |-> df_ftp[j].IDXACNO], 1)
        m1 == [n \in 1..Len(p1) |-> df_filtered[p1[n].l] @@
                  [LS_FTP |-> IF p1[n].r = 0 THEN NanCell ELSE df_ftp[p1[n].r].LS_FTP]]
        p2 == JoinPairs([i \in 1..Len(m1) |-> m1[i].IDXACNO],
                        [j \in 1..Len(df_tt) |-> df_tt[j].IDXACNO], 1)
        m2 == [n \in 1..Len(p2) |-> m1[p2[n].l] @@
                  [LS_THUC_TRA |->
                      IF p2[n].r = 0 THEN NanCell ELSE df_tt[p2[n].r].LS_THUC_TRA]]
    IN  [n \in 1..Len(m2) |->
            LET ghiso == to_numeric(m2[n].LS_GHISO)
                congbo == to_numeric(m2[n].LS_CONG_BO)
                ftp == to_numeric(m2[n].LS_FTP)
                thuctra == to_numeric(m2[n].LS_THUC_TRA)
            IN  [k |-> m2[n].k, SOL |-> m2[n].SOL, IDXACNO |-> m2[n].IDXACNO,
                 LS_GHISO |-> ghiso, LS_CONG_BO |-> congbo,
                 LS_FTP |-> ftp, LS_THUC_TRA |-> thuctra,
                 LSGS_KHAC_LSCB |-> Mark(RateDiffers(ghiso, congbo)),
                 KHONG_CO_LS_TRINH_DUYET |-> Mark(thuctra.isna),
                 LSGS_LON_HON_FTP |-> Mark(RateExceeds(ghiso, ftp))]]

\* lines 133-263, for workbooks that have the required columns under their exact
\* names (the schema stage is modelled by the strict-schema runs); SOL stands for the
\* BRCD column
RunTc1(raw, df_ckh, ftp, tt) ==
    LET sol == validate_sol_only(raw)
    IN  IF sol.raised # "" THEN ShowError("UserFacingError")
        ELSE ShowTable(Tc1Merge(filter_by_sol_contains(df_ckh, sol.value),
                                DropDuplicateRows(ftp), DropDuplicateRows(tt)))

\* the rows the uploads are made of; a rate is a number of hundredths of a percent
Tc1Base ==
    [SOL |-> <<"1", "0", "0", "0">>, IDXACNO |-> <<"A", "1">>, LS_GHISO |-> NumText(500),
     LS_CONG_BO |-> NumText(500)]

Tc1Rows ==
    {[Tc1Base EXCEPT !.SOL = <<"2", "0", "0", "0">>]}
    \cup {[Tc1Base EXCEPT !.IDXACNO = a] : a \in {<<"A", "1">>, <<"A", "2">>, NaN}}
    \cup {[Tc1Base EXCEPT !.LS_GHISO = g] : g \in {NumText(550), JunkText}}
    \cup {[Tc1Base EXCEPT !.LS_CONG_BO = NanCell]}

Tc1Rates == {NumText(500), NumText(525), NanCell}
Tc1Accounts == {<<"A", "1">>, <<"A", "2">>, NaN}
FtpRows == {[IDXACNO |-> a, LS_FTP |-> x] : a \in Tc1Accounts, x \in Tc1Rates}
ActualRows == {[IDXACNO |-> a, LS_THUC_TRA |-> x] : a \in Tc1Accounts, x \in Tc1Rates}

Tc1Sols == {<<"1", "0", "0", "0">>, <<"1", "0">>}

InitTc1 ==
    /\ pc = "tc1"
    /\ tc1_raw \in Tc1Sols
    /\ tc1_ckh \in {Indexed(rows) : rows \in SeqsUpTo(Tc1Rows, MaxTc1Rows)}
    /\ tc1_ftp \in SeqsUpTo(FtpRows, MaxTc1Rows - Len(tc1_ckh))
    /\ tc1_tt \in SeqsUpTo(ActualRows, MaxTc1Rows - Len(tc1_ckh) - Len(tc1_ftp))
    /\ tc1_out = Idle
    /\ OnlyRuns("tc1")

\* the "Chay TIEU CHI 1" button, pressed with the three kinds of workbook uploaded
RunTieuChi1 ==
    /\ pc = "tc1"
    /\ tc1_out' = RunTc1(tc1_raw, tc1_ckh, tc1_ftp, tc1_tt)
    /\ pc' = "tc1_done"
    /\ UNCHANGED <<tc1_raw, tc1_ckh, tc1_ftp, tc1_tt, othersTc1>>

NextTc1 == RunTieuChi1

SpecTc1 == InitTc1 /\ [][NextTc1]_vars

(***************************************************************************)
(* Customs declarations: process_tkhq_data (to_khai_hq.py 31-111)          *)
(***************************************************************************)
\* the cells of a date column after astype(str): "a-b-2025" typed as text, the
\* "2025-mm-dd hh:00:00" text of a date cell (h ticks after midnight), other text,
\* or "nan"
DmyText(a, b) == [txt |-> "dmy", a |-> a, b |-> b, h |-> 0]
IsoText(m, d, h) == [txt |-> "iso", a |-> m, b |-> d, h |-> h]

\* the calendar of 2025
DaysInMonth == <<31, 28, 31, 30, 31, 30, 31, 31, 30, 31, 30, 31>>
RECURSIVE DaysBefore(_)
DaysBefore(m) == IF m = 1 THEN 0 ELSE DaysBefore(m - 1) + DaysInMonth[m - 1]
ValidDate(m, d) == m \in 1..12 /\ d >= 1 /\ d <= DaysInMonth[m]
TickOf(m, d, h) == Value((DaysBefore(m) + d - 1) * TicksPerDay + h)

\* lines 35-45: some sampled text starts with a number above 12
SampleSize == 20
MaxMonth == 12
dayfirst_detected(series) ==
    \E i \in 1..Len(series) :
        i <= SampleSize /\ series[i].txt = "dmy" /\ series[i].a > MaxMonth

\* lines 47-52, one cell: pd.to_datetime(errors="coerce", dayfirst=...). A build that
\* parses each text by itself ("each") reads an impossible month as the day; a build
\* that fixes the format on the first text ("first") reads every text of another
\* form, and every impossible date, as NaT
ParseDateText(cell, dayfirst, build, form) ==
    IF cell.txt = "iso"
    THEN IF build = "first" /\ form # "iso" THEN Missing ELSE TickOf(cell.a, cell.b, cell.h)
    ELSE IF cell.txt = "dmy"
    THEN LET d == IF dayfirst THEN cell.a ELSE cell.b
             m == IF dayfirst THEN cell.b ELSE cell.a
         IN  IF build = "first" /\ form # "dmy" THEN Missing
             ELSE IF ValidDate(m, d) THEN TickOf(m, d, 0)
             ELSE IF build = "each" /\ ValidDate(d, m) THEN TickOf(d, m, 0)
             ELSE Missing
    ELSE Missing

\* the form of the first text that is a date: the one a "first" build goes by
FirstForm(series) ==
    IF \E i \in 1..Len(series) : series[i].txt \in {"iso", "dmy"}
    THEN series[CHOOSE i \in 1..Len(series) :
                    /\ series[i].txt \in {"iso", "dmy"}
                    /\ \A j \in 1..(i - 1) : series[j].txt \notin {"iso", "dmy"}].txt
    ELSE "none"

\* lines 31-52
smart_date_parse(series, build) ==
    [i \in 1..Len(series) |->
        ParseDateText(series[i], dayfirst_detected(series), build, FirstForm(series))]

\* (mutant) the days counted without asking whether the due date is there
SoNgayQuaHan_NoDueCheck(due, received, ngay_kiem_toan) ==
    LET days == Value((ngay_kiem_toan - due.v) \div TicksPerDay)
    IN  IF received.isna /\ days.v > 0 THEN days ELSE Missing

\* lines 77-84: the whole days from the due date to the audit date, when the due
\* date is there, nothing was received and the days are positive; "" otherwise
SoNgayQuaHan(due, received, ngay_kiem_toan) ==
    LET days == DaysBetween(Value(ngay_kiem_toan), due)
    IN  IF ~due.isna /\ received.isna /\ days.v > 0 THEN days ELSE Missing

\* lines 91-98, on pd.to_numeric(..., errors="coerce") of the day counts
OverdueLimit == 90
QuaHanChuaNhap(x) == Mark(~x.isna /\ x.v > 0)
QuaHan90_From90(x) == Mark(~x.isna /\ x.v >= OverdueLimit)
QuaHan90(x) == Mark(~x.isna /\ x.v > OverdueLimit)

\* lines 101-107
check_gia_han(row) ==
    IF ~IsNa(row.AUDIT_DATE2) THEN "X"
    ELSE Mark(~IsNa(row.DECLARATION_REF_NO)
              /\ Contains(SelectSeq(Lower(row.DECLARATION_REF_NO), LAMBDA c : c # " "),
                          <<"g", "i", "a", "h", "a", "n">>))

\* lines 58-111, for a workbook that has the two required columns
process_tkhq_data(df, ngay_kiem_toan, build) ==
    LET due == smart_date_parse([i \in 1..Len(df) |-> df[i].DECLARATION_DUE_DATE], build)
        rec == smart_date_parse([i \in 1..Len(df) |-> df[i].DECLARATION_RECEIVED_DATE],
                                build)
    IN  [i \in 1..Len(df) |->
            LET so_ngay == SoNgayQuaHan(due[i], rec[i], ngay_kiem_toan)
            IN  [k |-> df[i].k,
                 DECLARATION_DUE_DATE |-> due[i],
                 DECLARATION_RECEIVED_DATE |-> rec[i],
                 KHONG_NHAP_NGAY_DEN_HAN |-> Mark(due[i].isna),
                 SO_NGAY_QUA_HAN |-> so_ngay,
                 QUA_HAN_CHUA_NHAP |-> QuaHanChuaNhap(so_ngay),
                 QUA_HAN_90_NGAY |-> QuaHan90(so_ngay),
                 CO_PHAT_SINH_GIA_HAN |-> check_gia_han(df[i])]]

\* the rows a workbook is made of: rows about the dates, and rows about extensions
HqDueCells ==
    {IsoText(1, 10, 0), IsoText(1, 11, 0), IsoText(1, 10, 1), DmyText(1, 10),
     DmyText(13, 1), DmyText(1, 13), JunkText, NanCell}
HqReceivedCells == {NanCell, IsoText(2, 1, 0), DmyText(2, 1)}

HqRows ==
    {[DECLARATION_DUE_DATE |-> d, DECLARATION_RECEIVED_DATE |-> r, AUDIT_DATE2 |-> NaN,
      DECLARATION_REF_NO |-> NaN] : d \in HqDueCells, r \in HqReceivedCells}
    \cup {[DECLARATION_DUE_DATE |-> IsoText(1, 10, 0),
           DECLARATION_RECEIVED_DATE |-> NanCell, AUDIT_DATE2 |-> a,
           DECLARATION_REF_NO |-> n] :
            a \in {NaN, <<"x">>}, n \in {<<"G", "i", "a", " ", "H", "a", "n", " ", "1">>, <<"T", "K", " ", "0", "1">>}}

\* a long due-date column: "1-10-2025", then n cells that are all empty or all
\* "2-10-2025", then one last cell
HqLeadCells == {NanCell, DmyText(2, 10)}
HqLastCells == {DmyText(13, 1), DmyText(1, 13), DmyText(3, 10)}
HqLongColumn(n, lead, last) ==
    [i \in 1..(n + 2) |->
        [DECLARATION_DUE_DATE |-> IF i = 1 THEN DmyText(1, 10)
                                  ELSE IF i = n + 2 THEN last ELSE lead,
         DECLARATION_RECEIVED_DATE |-> NanCell, AUDIT_DATE2 |-> NaN,
         DECLARATION_REF_NO |-> NaN]]

\* the audit date: 10 January, 11 January or 11 April 2025
HqAuditDays == {9, 10, 100}

InitHq ==
    /\ pc = "hq"
    /\ hq_df \in {Indexed(rows) : rows \in SeqsUpTo(HqRows, MaxHqRows) \ {<<>>}}
                \cup {Indexed(HqLongColumn(n, lead, last)) :
                         n \in 0..MaxLead, lead \in HqLeadCells, last \in HqLastCells}
    /\ hq_audit \in {d * TicksPerDay : d \in HqAuditDays}
    /\ hq_build \in {"each", "first"}
    /\ hq_out = Idle
    /\ OnlyRuns("hq")

\* the "Bat dau xu ly" button, for a workbook that is read and has rows
RunToKhaiHq ==
    /\ pc = "hq"
    /\ hq_out' = process_tkhq_data(hq_df, hq_audit, hq_build)
    /\ pc' = "hq_done"
    /\ UNCHANGED <<hq_df, hq_audit, hq_build, othersHq>>

NextHq == RunToKhaiHq

SpecHq == InitHq /\ [][NextHq]_vars

(***************************************************************************)
(* HDV criterion 2 (hdv.py, run_hdv, tab2): customers ranked by balance    *)
(***************************************************************************)
KHDN == <<"K", "H", "D", "N">>
KHCN == <<"K", "H", "C", "N">>

\* lines 408-412: groupby("CUSTSEQ")["CURBAL_VN"].sum() for one key: the amounts of
\* the rows that bear the key, a missing amount counting for nothing
RECURSIVE BalanceOf(_, _, _)
BalanceOf(df, key, i) ==
    IF i > Len(df) THEN 0
    ELSE (IF df[i].CUSTSEQ = key /\ ~df[i].CURBAL_VN.isna THEN df[i].CURBAL_VN.v ELSE 0)
         + BalanceOf(df, key, i + 1)

\* line 413: the first row of every CUSTSEQ (missing keys are equal to each other),
\* left-joined to the sums; groupby has no group for a missing key, so that row
\* gets no sum
Tonghop(df) ==
    LET first == Keep(df, FirstPerKey([i \in 1..Len(df) |-> df[i].CUSTSEQ]), 1)
    IN  [i \in 1..Len(first) |->
            first[i] @@
            [SO_DU |-> IF IsNa(first[i].CUSTSEQ) THEN Missing
                       ELSE Value(BalanceOf(df, first[i].CUSTSEQ, 1))]]

\* (mutant) dense ranking: 1 plus the number of distinct greater balances
RankRaw_Dense(df, i) ==
    IF IsNa(df[i].CUST_TYPE) \/ df[i].SO_DU.isna THEN Missing
    ELSE Value(1 + Cardinality({df[j].SO_DU.v : j \in
                   {j \in 1..Len(df) : /\ df[j].CUST_TYPE = df[i].CUST_TYPE
                                       /\ ~df[j].SO_DU.isna
                                       /\ df[j].SO_DU.v > df[i].SO_DU.v}}))

\* line 423: groupby("CUST_TYPE")["SO DU"].rank(method="min", ascending=False); a
\* row without a type or without a balance gets NaN
RankRaw(df, i) ==
    IF IsNa(df[i].CUST_TYPE) \/ df[i].SO_DU.isna THEN Missing
    ELSE Value(1 + Cardinality({j \in 1..Len(df) : /\ df[j].CUST_TYPE = df[i].CUST_TYPE
                                                   /\ ~df[j].SO_DU.isna
                                                   /\ df[j].SO_DU.v > df[i].SO_DU.v}))

\* line 428: a comparison with NaN is False
TopMark(row, t, n) == Mark(row.CUST_TYPE = t /\ ~row.RANK_RAW.isna /\ row.RANK_RAW.v <= n)

\* line 432
RankShown(rank) == IF ~rank.isna /\ rank.v <= 20 THEN Value(rank.v) ELSE Missing

\* lines 403-432
Tc2Rank(df_ckh2, df_kkh2, chi_nhanh) ==
    LET df_all == df_ckh2 \o df_kkh2
        kept == filter_by_sol_contains(df_all, chi_nhanh)
        df_filtered == [i \in 1..Len(kept) |->
                           [kept[i] EXCEPT !.CURBAL_VN = to_numeric(kept[i].CURBAL_VN)]]
        df_tonghop == Tonghop(df_filtered)
    IN  [i \in 1..Len(df_tonghop) |->
            LET row == df_tonghop[i] @@ [RANK_RAW |-> RankRaw(df_tonghop, i)]
            IN  row @@
                [TOP10_KHDN |-> TopMark(row, KHDN, 10), TOP15_KHDN |-> TopMark(row, KHDN, 15),
                 TOP20_KHDN |-> TopMark(row, KHDN, 20),
                 TOP10_KHCN |-> TopMark(row, KHCN, 10), TOP15_KHCN |-> TopMark(row, KHCN, 15),
                 TOP20_KHCN |-> TopMark(row, KHCN, 20),
                 RANK |-> RankShown(row.RANK_RAW)]]

\* lines 383-455, for workbooks that have the required columns under their exact
\* names (the schema stage is modelled by the strict-schema runs); SOL stands for the
\* BRCD column, and k for the columns the ranking does not read
RunTc2(raw, df_ckh2, df_kkh2) ==
    LET sol == validate_sol_only(raw)
    IN  IF sol.raised # "" THEN ShowError("UserFacingError")
        ELSE ShowTable(Tc2Rank(df_ckh2, df_kkh2, sol.value))

Tc2Sols == {<<"1", "0", "0", "0">>, <<"1", "0">>}

\* the rows of the small uploads
Tc2Rows ==
    {[SOL |-> <<"1", "0", "0", "0">>, CUST_TYPE |-> t, CUSTSEQ |-> c, CURBAL_VN |-> a] :
        t \in {KHDN, KHCN, NaN},
        c \in {<<"1">>, <<"2">>, NaN},
        a \in {NumText(100), JunkText}}
    \cup {[SOL |-> <<"2", "0", "0", "0">>, CUST_TYPE |-> KHCN, CUSTSEQ |-> <<"1">>,
           CURBAL_VN |-> NumText(100)]}

\* the large uploads: n customers of branch 1000, customer c with an account in the
\* CKH workbook and, when c is odd, a second one in the KKH workbook
TwoDigits(c) == IF c < 10 THEN <<DigitChar(c)>> ELSE <<DigitChar(c \div 10), DigitChar(c % 10)>>

LadderShapes == {"distinct", "pairs", "example"}
LadderTypes == {"one", "mixed"}
LadderOrders == {"falling", "rising"}

\* the balance of customer c
LadderBalance(shape, c) ==
    CASE shape = "distinct" -> 100 - c
      [] shape = "pairs" -> 100 - ((c - 1) \div 2)
      [] shape = "example" -> IF c <= 2 THEN 100 ELSE IF c = 3 THEN 90 ELSE 84 - c

LadderType(types, c) == IF types = "mixed" /\ c % 3 = 0 THEN KHDN ELSE KHCN

LadderRow(shape, types, c, amount) ==
    [SOL |-> <<"1", "0", "0", "0">>, CUST_TYPE |-> LadderType(types, c),
     CUSTSEQ |-> TwoDigits(c), CURBAL_VN |-> NumText(amount)]

LadderCkh(n, shape, types, order) ==
    [i \in 1..n |->
        LET c == IF order = "falling" THEN i ELSE n + 1 - i
        IN  LadderRow(shape, types, c, LadderBalance(shape, c) - (c % 2))]

LadderKkh(n, shape, types) ==
    [i \in 1..((n + 1) \div 2) |-> LadderRow(shape, types, 2 * i - 1, 1)]

InitTc2 ==
    /\ pc = "tc2"
    /\ tc2_raw \in Tc2Sols
    /\ \/ /\ tc2_ckh \in {Indexed(rows) : rows \in SeqsUpTo(Tc2Rows, MaxTc2Rows)}
          /\ tc2_kkh \in {Indexed(rows) : rows \in SeqsUpTo(Tc2Rows, MaxTc2Rows - Len(tc2_ckh))}
       \/ \E n \in 0..MaxLadder, shape \in LadderShapes, types \in LadderTypes,
             order \in LadderOrders :
               /\ tc2_ckh = Indexed(LadderCkh(n, shape, types, order))
               /\ tc2_kkh = Indexed(LadderKkh(n, shape, types))
    /\ tc2_out = Idle
    /\ OnlyRuns("tc2")

\* the "Chay TIEU CHI 2" button, pressed with the CKH and KKH workbooks uploaded
RunTieuChi2 ==
    /\ pc = "tc2"
    /\ tc2_out' = RunTc2(tc2_raw, tc2_ckh, tc2_kkh)
    /\ pc' = "tc2_done"
    /\ UNCHANGED <<tc2_raw, tc2_ckh, tc2_kkh, othersTc2>>

NextTc2 == RunTieuChi2

SpecTc2 == InitTc2 /\ [][NextTc2]_vars

(***************************************************************************)
(* The exporter: to_excel_bytes (DVKH.py 87-94), and the workbook read     *)
(* back with pd.read_excel(sheet_name=..., dtype=str)                      *)
(*                                                                         *)
(* A table is its column labels and its rows of cells; a worksheet is its  *)
(* title and the grid of its cells, the header row first (<<>> is an empty *)
(* cell).                                                                  *)
(***************************************************************************)
\* line 91: name[:31]
SheetNameLen == 31

\* (mutant) the name cut one character later
Truncated_OneMore(name) ==
    SubSeq(name, 1, IF Len(name) < SheetNameLen + 1 THEN Len(name) ELSE SheetNameLen + 1)

Truncated(name) == SubSeq(name, 1, IF Len(name) < SheetNameLen THEN Len(name) ELSE SheetNameLen)

\* openpyxl, INVALID_TITLE_REGEX: a title with one of these characters is refused
InvalidTitleChars == {"\\", "*", "?", ":", "/", "[", "]"}

\* openpyxl, avoid_duplicate_name: a title that an earlier sheet bears, in any
\* letter case, gets the next free number appended
avoid_duplicate_name(titles, value) ==
    LET same == {t \in titles : Lower(SubSeq(t, 1, IF Len(t) < Len(value) THEN Len(t) ELSE Len(value)))
                                    = Lower(value)
                                /\ Len(t) <= Len(value) + 1
                                /\ (Len(t) = Len(value) + 1 => t[Len(t)] \in AsciiDigits)}
        counts == {IF Len(t) = Len(value) THEN 0 ELSE DigitVal(t[Len(t)]) : t \in same}
        highest == CHOOSE c \in counts : \A d \in counts : d <= c
    IN  IF \E t \in titles : Lower(t) = Lower(value)
        THEN value \o <<DigitChar(highest + 1)>>
        ELSE value

\* DataFrame.to_excel(index=False): the header row, then the rows, a missing value
\* written as the empty text (na_rep); openpyxl stores the empty text as an empty cell
GridOf(df) ==
    <<df.columns>> \o
    [i \in 1..Len(df.rows) |->
        [j \in 1..Len(df.rows[i]) |-> IF IsNa(df.rows[i][j]) THEN <<>> ELSE df.rows[i][j]]]

\* cells written onto a sheet that holds cells already: the others stay
Overlay(old, new) ==
    [i \in 1..(IF Len(old) > Len(new) THEN Len(old) ELSE Len(new)) |->
        IF i > Len(new) THEN old[i]
        ELSE IF i > Len(old) THEN new[i]
        ELSE [j \in 1..(IF Len(old[i]) > Len(new[i]) THEN Len(old[i]) ELSE Len(new[i])) |->
                 IF j <= Len(new[i]) THEN new[i][j] ELSE old[i][j]]]

\* line 92 on the workbook built so far: the sheet of that exact title is written
\* over, or a sheet is created and titled
WriteSheet(book, sheet, df) ==
    IF book.raised # "" THEN book
    ELSE IF \E i \in 1..Len(book.sheets) : book.sheets[i].title = sheet
    THEN LET i == CHOOSE i \in 1..Len(book.sheets) : book.sheets[i].title = sheet
         IN  [book EXCEPT !.sheets[i].grid = Overlay(@, GridOf(df))]
    ELSE IF \E c \in 1..Len(sheet) : sheet[c] \in InvalidTitleChars
    THEN [raised |-> "ValueError", sheets |-> <<>>]
    ELSE LET titles == {book.sheets[i].title : i \in 1..Len(book.sheets)}
         IN  [book EXCEPT !.sheets =
                 Append(@, [title |-> avoid_duplicate_name(titles, sheet), grid |-> GridOf(df)])]

RECURSIVE WriteAll(_, _, _)
WriteAll(book, dfs, i) ==
    IF i > Len(dfs) THEN book
    ELSE WriteAll(WriteSheet(book, Truncated(dfs[i].name), dfs[i].df), dfs, i + 1)

\* lines 87-94: the workbook the bytes hold, or the exception that left the function
\* (saving a workbook without a sheet raises IndexError)
to_excel_bytes(dfs) ==
    LET book == WriteAll([raised |-> "", sheets |-> <<>>], dfs, 1)
    IN  IF book.raised = "" /\ book.sheets = <<>>
        THEN [raised |-> "IndexError", sheets |-> <<>>]
        ELSE book

\* the reader on one sheet: a row loses its trailing empty cells
RECURSIVE RStripRow(_)
RStripRow(row) ==
    IF row # <<>> /\ row[Len(row)] = <<>> THEN RStripRow(SubSeq(row, 1, Len(row) - 1)) ELSE row

\* read_excel(..., dtype=str) on one sheet: the rows after the last row that has a
\* cell are dropped, the first row gives the labels, an empty cell reads as missing
Unnamed == <<"U", "n", "n", "a", "m", "e", "d">>
ReadSheetGrid(grid) ==
    LET full == {i \in 1..Len(grid) : RStripRow(grid[i]) # <<>>}
        last == IF full = {} THEN 0 ELSE CHOOSE i \in full : \A j \in full : j <= i
        width == IF last = 0 THEN 0
                 ELSE LET lens == {Len(RStripRow(grid[i])) : i \in 1..last}
                      IN  CHOOSE w \in lens : \A v \in lens : v <= w
        cell(i, j) == IF j <= Len(grid[i]) THEN grid[i][j] ELSE <<>>
    IN  IF last = 0 THEN [columns |-> <<>>, rows |-> <<>>]
        ELSE [columns |-> [j \in 1..width |->
                              IF cell(1, j) = <<>> THEN Unnamed ELSE cell(1, j)],
              rows |-> [i \in 1..(last - 1) |->
                           [j \in 1..width |->
                               IF cell(i + 1, j) = <<>> THEN NaN ELSE cell(i + 1, j)]]]

\* the names of the mappings: short ones, one with "/", and long ones
Repeat(c, n) == [i \in 1..n |-> c]
XlsNames ==
    { <<"a">>, <<"A">>, <<"a", "/">>,
      Repeat("a", SheetNameLen - 1) \o <<"b">>,
      Repeat("a", MaxNameLen - 1) \o <<"x">>,
      Repeat("a", MaxNameLen - 1) \o <<"y">> }

\* the result tables: two columns, cells with a text, the empty text or no value
XlsColumns == {<<<<"A">>, <<"B">>>>, <<<<"B">>, <<"A">>>>}
XlsDataRows == {<<<<"v">>, NaN>>, <<<<>>, NaN>>}
XlsTables(n) == {[columns |-> c, rows |-> r] : c \in XlsColumns, r \in SeqsUpTo(XlsDataRows, n)}

\* lines 642-645 and 695-698: the callers export two tables at a time
EntriesPerExport == 2

\* the mappings of at most n entries with at most rows data rows in all; the keys of
\* a dict are distinct
RECURSIVE XlsMappings(_, _)
XlsMappings(n, rows) ==
    IF n = 0 THEN {<<>>}
    ELSE LET shorter == XlsMappings(n - 1, rows)
             used(m) == IF m = <<>> THEN 0
                        ELSE LET RECURSIVE total(_)
                                 total(i) == IF i = 0 THEN 0
                                             ELSE Len(m[i].df.rows) + total(i - 1)
                             IN  total(Len(m))
         IN  shorter \cup
             UNION {{Append(m, [name |-> nm, df |-> df]) :
                        nm \in {x \in XlsNames : \A i \in 1..Len(m) : m[i].name # x},
                        df \in XlsTables(rows - used(m))} :
                    m \in {m \in shorter : Len(m) = n - 1}}

InitXls ==
    /\ pc = "xls"
    /\ xls_dfs \in XlsMappings(EntriesPerExport, MaxXlsRows)
    /\ xls_out = Idle
    /\ xls_read = Idle
    /\ OnlyRuns("xls")

\* one call of to_excel_bytes
ToExcelBytes ==
    /\ pc = "xls"
    /\ xls_out' = to_excel_bytes(xls_dfs)
    /\ pc' = "xls_written"
    /\ UNCHANGED <<xls_dfs, xls_read, othersXls>>

\* the returned bytes read back, sheet by sheet
ReadBack ==
    /\ pc = "xls_written"
    /\ xls_out.raised = ""
    /\ xls_read' = [i \in 1..Len(xls_out.sheets) |-> ReadSheetGrid(xls_out.sheets[i].grid)]
    /\ pc' = "xls_read"
    /\ UNCHANGED <<xls_dfs, xls_out, othersXls>>

NextXls == ToExcelBytes \/ ReadBack

SpecXls == InitXls /\ [][NextXls]_vars

(***************************************************************************)
(* The HDV criterion runs as the page shows them (hdv.py, run_hdv): the    *)
(* upload check, the SOL validation, the schema checks, and what is        *)
(* rendered. The contents of the result tables are modelled by the runs of *)
(* each criterion above.                                                   *)
(***************************************************************************)
\* hdv.py 188: the two labels of the actual-rate workbook ("So tai khoan" and "Lai
\* suat thuc tra", written here without their diacritics)
cols_tt ==
    << <<"S", "o", " ", "t", "a", "i", " ", "k", "h", "o", "a", "n">>,
       <<"L", "a", "i", " ", "s", "u", "a", "t", " ", "t", "h", "u", "c", " ", "t", "r", "a">> >>

\* what a run renders
PageError(detail) == [kind |-> "error", detail |-> detail]
PageSuccess == [kind |-> "success", detail |-> FALSE]
PageTable == [kind |-> "dataframe", detail |-> FALSE]
PageDownload == [kind |-> "download", detail |-> FALSE]

\* (mutant) the table rendered before the checks are over
PageAfter_Partial(error) ==
    IF error = "" THEN <<PageSuccess, PageTable, PageDownload>>
    ELSE IF error = "UserFacingError" THEN <<PageTable, PageError(FALSE)>>
    ELSE <<PageTable, PageError(TRUE)>>

\* hdv.py 253-263, 445-455, 510-520: success, table and download at the end of the
\* try block, or render_error from the handler that caught the exception (with the
\* traceback for an exception that is not a UserFacingError)
PageAfter(error) ==
    IF error = "" THEN <<PageSuccess, PageTable, PageDownload>>
    ELSE IF error = "UserFacingError" THEN <<PageError(FALSE)>>
    ELSE <<PageError(TRUE)>>

\* the first exception of a sequence of steps, "" for none
RECURSIVE FirstError(_)
FirstError(steps) ==
    IF steps = <<>> THEN ""
    ELSE IF Head(steps) # "" THEN Head(steps) ELSE FirstError(Tail(steps))

CheckOnly(columns, required) ==
    IF require_columns(columns, required) # {} THEN "UserFacingError" ELSE ""

\* the loading steps of a criterion, in the order of the code: hdv.py 156-199 (CKH,
\* FTP, actual rates), 397-403 (both checks, then both selections), 484-492
LoadHdv(tc, files) ==
    CASE tc = "TC1" ->
            FirstError(<<LoadUsecols(files[1].columns, cols_ckh).error,
                         LoadUsecols(files[2].columns, cols_ftp_use).error,
                         CheckThenSelect(files[3].columns, cols_tt).error>>)
      [] tc = "TC2" ->
            FirstError(<<CheckOnly(files[1].columns, cols_tc2),
                         CheckOnly(files[2].columns, cols_tc2),
                         CheckThenSelect(files[1].columns, cols_tc2).error,
                         CheckThenSelect(files[2].columns, cols_tc2).error>>)
      [] tc = "TC3" -> LoadPlain(files[1].columns, cols_tc3).error

\* hdv.py 130-263, 383-455, 477-520: one press of a run button
RunHdv(tc, raw, files) ==
    IF \E i \in 1..Len(files) : ~files[i].uploaded THEN <<PageError(FALSE)>>
    ELSE LET sol == validate_sol_only(raw)
         IN  IF sol.raised # "" THEN PageAfter("UserFacingError")
             ELSE PageAfter(LoadHdv(tc, files))

\* the workbooks each criterion asks for, by their declared columns
UploadsOf(tc) ==
    CASE tc = "TC1" -> <<cols_ckh, cols_ftp_use, cols_tt>>
      [] tc = "TC2" -> <<cols_tc2, cols_tc2>>
      [] tc = "TC3" -> <<cols_tc3>>

\* an upload: nothing, or a workbook whose header is the declared one, lacks its
\* first label, spells it in lower case, or has one column more
NoUpload == [uploaded |-> FALSE, columns |-> <<>>]
Upload(columns) == [uploaded |-> TRUE, columns |-> columns]

PageUploads(declared) ==
    {NoUpload, Upload(declared), Upload(Tail(declared)),
     Upload([declared EXCEPT ![1] = Lower(@)]), Upload(Append(declared, ExtraLabel))}

PageSols == {<<"1", "0", "0", "0">>, <<"1", "0">>, <<>>, <<"a", "b", "c", "d">>, None}

InitPg ==
    /\ pc = "pg"
    /\ pg_tc \in {"TC1", "TC2", "TC3"}
    /\ pg_raw \in PageSols
    /\ pg_files \in {f \in UNION {[1..n -> UNION {PageUploads(UploadsOf(pg_tc)[i]) :
                                                     i \in 1..Len(UploadsOf(pg_tc))}] : n \in 1..3} :
                        /\ Len(f) = Len(UploadsOf(pg_tc))
                        /\ \A i \in 1..Len(f) : f[i] \in PageUploads(UploadsOf(pg_tc)[i])}
    /\ pg_page = Idle
    /\ OnlyRuns("pg")

\* the run button of the criterion, pressed
PressRun ==
    /\ pc = "pg"
    /\ pg_page' = RunHdv(pg_tc, pg_raw, pg_files)
    /\ pc' = "pg_done"
    /\ UNCHANGED <<pg_tc, pg_raw, pg_files, othersPg>>

NextPg == PressRun

SpecPg == InitPg /\ [][NextPg]_vars

(***************************************************************************)
(* The dispatcher of the main page (app.py 141-178): every module function *)
(* is run through run_with_user_error (error_utils.py), the DVKH module    *)
(* through its wrapper run_dvkh_5_tieuchi (DVKH.py)                        *)
(***************************************************************************)
\* an exception: its class, the text str() gives, and the class of its __cause__
NoException == [type |-> "", message |-> "", cause |-> ""]
Exc(type, message, cause) == [type |-> type, message |-> message, cause |-> cause]

ControlExceptions == {"RerunException", "StopException"}

\* error_utils.py 22-29: the classes are looked up in streamlit.runtime.scriptrunner;
\* where that import fails nothing is taken for a control exception
_should_reraise(exc, importable) == importable /\ exc.type \in ControlExceptions

\* what render_error puts on the page (error_utils.py 11-19): the message, and the
\* class whose traceback the expander shows ("" for no expander)
Rendered(message, detail) == [kind |-> "error", message |-> message, detail |-> detail]

\* how a call ends: the exception that leaves it and the page it rendered
Outcome(exc, page) == [propagated |-> exc, page |-> page]

\* DVKH.py 565-576, around a body that ends with exc
run_dvkh_5_tieuchi(exc, importable) ==
    IF exc = NoException THEN NoException
    ELSE IF exc.type = "UserFacingError" THEN exc
    ELSE IF _should_reraise(exc, importable) THEN exc
    ELSE Exc("UserFacingError", "dvkh", exc.type)

\* the exception with which the function of a menu entry ends, its body ending with exc
ModuleEnds(menu, exc, importable) ==
    IF menu = "DVKH" THEN run_dvkh_5_tieuchi(exc, importable) ELSE exc

\* error_utils.py 52-65
run_with_user_error(exc, importable) ==
    IF exc = NoException THEN Outcome(NoException, <<>>)
    ELSE IF exc.type = "UserFacingError" THEN Outcome(NoException, <<Rendered(exc.message, "")>>)
    ELSE IF _should_reraise(exc, importable) THEN Outcome(exc, <<>>)
    ELSE Outcome(NoException, <<Rendered("generic", exc.type)>>)

\* app.py 141-178
Menus == {"PhoiThe", "ChuyenTien", "ToKhaiHQ", "TinDung", "HDV", "NgoaiTeVang", "DVKH",
          "The", "POS"}

\* what the body of a module can end with
BodyEnds ==
    {NoException, Exc("UserFacingError", "own", "")}
        \cup {Exc(t, "text", "") : t \in ControlExceptions \cup {"ValueError", "KeyError", "IndexError"}}

InitDisp ==
    /\ pc = "disp"
    /\ disp_menu \in Menus
    /\ disp_exc \in BodyEnds
    /\ disp_import \in BOOLEAN
    /\ disp_out = Idle
    /\ OnlyRuns("disp")

\* one run of the script with the menu entry chosen
Dispatch ==
    /\ pc = "disp"
    /\ disp_out' = run_with_user_error(ModuleEnds(disp_menu, disp_exc, disp_import), disp_import)
    /\ pc' = "disp_done"
    /\ UNCHANGED <<disp_menu, disp_exc, disp_import, othersDisp>>

NextDisp == Dispatch

SpecDisp == InitDisp /\ [][NextDisp]_vars

(***************************************************************************)
(* The run buttons of the DVKH page (DVKH.py, _run_dvkh_5_tieuchi): the    *)
(* uploads as files that may or may not be readable, the page and the      *)
(* audit entries of one press                                              *)
(***************************************************************************)
\* what an upload of an archive-or-workbook box can be: nothing, a workbook, a file
\* named as a workbook that cannot be parsed, an archive with one workbook, a file
\* named as an archive that cannot be opened, an archive whose workbook cannot be
\* parsed
ArchiveUploads == {"absent", "xlsx", "xlsx_bad", "zip", "zip_bad", "zip_inner_bad"}
WorkbookUploads == {"absent", "xlsx", "xlsx_bad"}
\* the SMS archive: nothing, an archive with a readable text file, a file that cannot
\* be opened, an archive without a text file, an archive whose text file cannot be read
SmsUploads == {"absent", "zip", "zip_bad", "zip_no_txt", "zip_txt_bad"}

\* an upload that is there and cannot be parsed
Unparsable(upload) == upload \in {"xlsx_bad", "zip_bad", "zip_inner_bad", "zip_txt_bad"}

\* lines 107-120: the workbooks found in an archive; [] when it cannot be opened
extract_excel_from_zip_bytes(upload) ==
    CASE upload = "zip" -> <<"xlsx">>
      [] upload = "zip_inner_bad" -> <<"xlsx_bad">>
      [] OTHER -> <<>>

\* lines 123-135: the first text file of the archive; None when it cannot be opened
\* or has no text file
extract_text_from_zip_bytes(upload) ==
    CASE upload = "zip" -> "txt"
      [] upload = "zip_txt_bad" -> "txt_bad"
      [] OTHER -> "None"

\* lines 594-608: the list handed on for the CKH box or the KKH box
UploadedFiles(upload) ==
    CASE upload \in {"zip", "zip_bad", "zip_inner_bad"} -> extract_excel_from_zip_bytes(upload)
      [] upload \in {"xlsx", "xlsx_bad"} -> <<upload>>
      [] OTHER -> <<>>

\* lines 56-67 and 72-81: the read raises on a file that cannot be parsed
Readable(file) == file \in {"xlsx", "txt"}

\* the tables of the readable uploads
BtnCkh == PairCkh
BtnKkh == PairKkh
BtnMuc30 == Indexed(PairMuc30)
BtnSms == <<[FORACID |-> <<"1", "2", "3", "4", "5">>, CUSTTPCD |-> <<"K", "H", "C", "N">>]>>
BtnScm == <<[CIF_ID |-> <<"5", "5", "5">>]>>

\* how a call of the processing ends: the class of the exception raised ("" for
\* none) and the tables returned
Processed(raised, merged, tc3) == [raised |-> raised, merged |-> merged, tc3 |-> tc3]

\* line 383: the call returned merged and df_tc3
ReturnedTables(out) == Processed("", out.merged, out.tc3)

\* lines 337-343: a SCM010 workbook that cannot be parsed is an empty table
ReadScm10(file) == IF Readable(file) THEN BtnScm ELSE <<>>

\* lines 142-383 on files: the CKH and KKH workbooks, MUC30 and the SMS text are read
\* (lines 160-187, 200, 303-319) and a file that cannot be parsed raises
ProcessFiles(ckh_files, kkh_files, muc30_file, sms_file, scm_file) ==
    IF \/ \E i \in 1..Len(ckh_files) : ~Readable(ckh_files[i])
       \/ \E i \in 1..Len(kkh_files) : ~Readable(kkh_files[i])
       \/ ~Readable(muc30_file)
       \/ ~Readable(sms_file)
    THEN Processed("Exception", <<>>, <<>>)
    ELSE ReturnedTables(process_uyquyen_sms_scm(BtnCkh, BtnKkh, BtnMuc30, BtnSms,
                                                ReadScm10(scm_file)))

\* what a press leaves: the page, the audit actions, and the tables offered
Pressed(page, audit, result) == [page |-> page, audit |-> audit, result |-> result]

\* an element of the page: its kind and, for an error, the uploads its text names
Shown(kind, names) == [kind |-> kind, names |-> names]

\* the request that reaches the session while the files are processed ("" for none):
\* a widget touched (rerun) or the page closed (stop). The script runner raises it in
\* the script thread at the next st.* call, which is st.success after a processing
\* that returned (lines 636, 688) and st.error in the handler after one that raised
\* (lines 649, 702)
ControlRequests == {"", "RerunException", "StopException"}

\* lines 648, 701: `except Exception` lets through what derives from BaseException
\* only; up.base tells whether the control exceptions of the installed Streamlit do
EscapesHandler(up) == up.ctl # "" /\ up.base

\* lines 629-651: the try statement of the 1-3 button around a processing that ended
\* as out. A control exception raised by st.success escapes where it derives from
\* BaseException and is handled as a processing error otherwise; raised by st.error
\* in the handler it leaves the handler before the closing audit_log
TryTieuChi13(up, out) ==
    IF out.raised # ""
    THEN IF up.ctl # ""
         THEN Pressed(<<>>, <<"run_tieuchi_1_3_start">>, out)
         ELSE Pressed(<<Shown("error", {}), Shown("exception", {})>>,
                      <<"run_tieuchi_1_3_start", "run_tieuchi_1_3_error">>, out)
    ELSE IF EscapesHandler(up)
    THEN Pressed(<<>>, <<"run_tieuchi_1_3_start">>, out)
    ELSE IF up.ctl # ""
    THEN Pressed(<<Shown("error", {}), Shown("exception", {})>>,
                 <<"run_tieuchi_1_3_start", "run_tieuchi_1_3_error">>, out)
    ELSE Pressed(<<Shown("success", {}), Shown("subheader", {}),
                   Shown("dataframe", {}), Shown("download", {})>>,
                 <<"run_tieuchi_1_3_start", "run_tieuchi_1_3_success">>, out)

\* lines 614-651: the "Chay Tieu chi 1-3" button
PressTieuChi13(up) ==
    IF \/ up.muc30 = "absent" \/ up.scm = "absent" \/ up.sms = "absent"
       \/ UploadedFiles(up.ckh) = <<>> \/ UploadedFiles(up.kkh) = <<>>
    THEN Pressed(<<Shown("error", {"ckh", "kkh", "muc30", "sms", "scm"})>>,
                 <<"run_tieuchi_1_3_failed">>, Processed("", <<>>, <<>>))
    ELSE IF extract_text_from_zip_bytes(up.sms) = "None"
    THEN Pressed(<<Shown("error", {"sms"})>>,
                 <<"run_tieuchi_1_3_failed">>, Processed("", <<>>, <<>>))
    ELSE TryTieuChi13(up, ProcessFiles(UploadedFiles(up.ckh), UploadedFiles(up.kkh),
                                       up.muc30, extract_text_from_zip_bytes(up.sms),
                                       up.scm))

\* the tables of the readable uploads of criteria 4-5
Btn42a == Indexed(<<Base42a, [Base42a EXCEPT !.BRCD = <<"2", "1", "0", "0">>,
                                             !.IDXACNO = <<"A", "2">>]>>)
Btn42b == <<[MACIF |-> <<"C", "1">>, STKKH |-> <<"A", "1">>,
             CHARGELEVELCODE_CIF |-> <<"L", "1">>,
             CHARGELEVELCODE_TK |-> <<"N", "V", "E", "I", "B">>]>>

\* how a call of process_tieuchi_4_5 ends: the exception raised ("" for none) and
\* df_42a_final
Processed45(raised, df_42a) == [raised |-> raised, df_42a |-> df_42a]

\* lines 386-560 on files: every workbook is read as it is needed and a file that
\* cannot be parsed raises; without a 4.2.a workbook two empty tables are returned
\* (lines 414-415)
ProcessFiles45(files_42a, file_42b, file_42c, file_42d, file_mapping, chi_nhanh) ==
    IF \E i \in 1..Len(files_42a) : ~Readable(files_42a[i])
    THEN Processed45("Exception", <<>>)
    ELSE IF files_42a = <<>> THEN Processed45("", <<>>)
    ELSE IF ~Readable(file_42b) \/ ~Readable(file_42c) \/ ~Readable(file_42d)
            \/ ~Readable(file_mapping)
    THEN Processed45("Exception", <<>>)
    ELSE Processed45("", process_tieuchi_4(Btn42a, Btn42b, <<>>, <<>>, chi_nhanh))

\* lines 668-704: the try statement of the 4-5 button around a processing that ended
\* as out
TryTieuChi45(up, out) ==
    IF out.raised # ""
    THEN IF up.ctl # ""
         THEN Pressed(<<>>, <<"run_tieuchi_4_5_start">>, out)
         ELSE Pressed(<<Shown("error", {}), Shown("exception", {})>>,
                      <<"run_tieuchi_4_5_start", "run_tieuchi_4_5_error">>, out)
    ELSE IF EscapesHandler(up)
    THEN Pressed(<<>>, <<"run_tieuchi_4_5_start">>, out)
    ELSE IF up.ctl # ""
    THEN Pressed(<<Shown("error", {}), Shown("exception", {})>>,
                 <<"run_tieuchi_4_5_start", "run_tieuchi_4_5_error">>, out)
    ELSE Pressed(<<Shown("success", {}), Shown("subheader", {}),
                   Shown("dataframe", {}), Shown("subheader", {}),
                   Shown("dataframe", {}), Shown("download", {})>>,
                 <<"run_tieuchi_4_5_start", "run_tieuchi_4_5_success">>, out)

\* lines 661-704: the "Chay Tieu chi 4-5" button; chi_nhanh is the text of the box,
\* stripped and upper-cased (line 661); an archive is unpacked, one workbook is taken
\* as it is (lines 671-677)
PressTieuChi45(up) ==
    IF \/ \E u \in {"f42a", "f42b", "f42c", "f42d", "map"} : up[u] = "absent"
       \/ Upper(Strip(up.cn)) = <<>>
    THEN Pressed(<<Shown("error", {})>>, <<"run_tieuchi_4_5_failed">>,
                 Processed45("", <<>>))
    ELSE TryTieuChi45(up, ProcessFiles45(
             IF up.f42a \in {"zip", "zip_bad", "zip_inner_bad"}
             THEN extract_excel_from_zip_bytes(up.f42a)
             ELSE <<up.f42a>>,
             up.f42b, up.f42c, up.f42d, up.map, Upper(Strip(up.cn))))

\* what is typed in the SOL box of criteria 4-5
BtnCodes == {<<>>, <<" ">>, <<"1", "0", "0", "0">>, <<" ", "1", "0", "0", "0">>, <<"1", "0">>,
             <<"2", "1">>}

InitBtn ==
    /\ pc = "btn"
    /\ btn_up \in [tab : {"1-3"}, ckh : ArchiveUploads, kkh : ArchiveUploads,
                   muc30 : WorkbookUploads, sms : SmsUploads, scm : WorkbookUploads,
                   ctl : ControlRequests, base : BOOLEAN]
                  \cup [tab : {"4-5"}, f42a : ArchiveUploads, f42b : WorkbookUploads,
                        f42c : WorkbookUploads, f42d : WorkbookUploads,
                        map : WorkbookUploads, cn : BtnCodes,
                        ctl : ControlRequests, base : BOOLEAN]
    /\ btn_out = Idle
    /\ OnlyRuns("btn")

\* one press of the button of criteria 1-3
RunTieuChi13 ==
    /\ pc = "btn"
    /\ btn_up.tab = "1-3"
    /\ btn_out' = PressTieuChi13(btn_up)
    /\ pc' = "btn_done"
    /\ UNCHANGED <<btn_up, othersBtn>>

\* one press of the button of criteria 4-5
RunTieuChi45 ==
    /\ pc = "btn"
    /\ btn_up.tab = "4-5"
    /\ btn_out' = PressTieuChi45(btn_up)
    /\ pc' = "btn_done"
    /\ UNCHANGED <<btn_up, othersBtn>>

NextBtn == RunTieuChi13 \/ RunTieuChi45

SpecBtn == InitBtn /\ [][NextBtn]_vars

(***************************************************************************)
(* audit_log (DVKH.py 40-49) called by concurrent runs: every Streamlit    *)
(* session runs the script in a thread of its own, and all of them append  *)
(* to the one file dvkh_audit.csv                                          *)
(***************************************************************************)
Writers == 1..MaxWriters

HeaderLine == [header |-> TRUE, writer |-> 0, entry |-> 0]
Record(w, n) == [header |-> FALSE, writer |-> w, entry |-> n]

\* line 47: header = not os.path.exists(AUDIT_FILE)
NeedsHeader(exists) == ~exists

\* line 48: what to_csv hands to the file when its handle is closed: the header line
\* when asked for, and the record
Written(header, w, n) == (IF header THEN <<HeaderLine>> ELSE <<>>) \o <<Record(w, n)>>

\* the file at the start: not there, or there with its header line
InitAl ==
    /\ pc = "al"
    /\ al_exists \in BOOLEAN
    /\ al_file = IF al_exists THEN <<HeaderLine>> ELSE <<>>
    /\ al_calls \in [Writers -> 1..MaxEntries]
    /\ al_done = [w \in Writers |-> 0]
    /\ al_at = [w \in Writers |-> "idle"]
    /\ al_header = [w \in Writers |-> FALSE]
    /\ OnlyRuns("al")

\* line 47, by writer w: the call begins and looks whether the file is there
CheckExists(w) ==
    /\ pc = "al"
    /\ al_at[w] = "idle"
    /\ al_done[w] < al_calls[w]
    /\ al_header' = [al_header EXCEPT ![w] = NeedsHeader(al_exists)]
    /\ al_at' = [al_at EXCEPT ![w] = "checked"]
    /\ UNCHANGED <<al_exists, al_file, al_calls, al_done, pc, othersAl>>

\* line 48, first half: to_csv opens the file in mode "a", which creates it
OpenAppend(w) ==
    /\ pc = "al"
    /\ al_at[w] = "checked"
    /\ al_exists' = TRUE
    /\ al_at' = [al_at EXCEPT ![w] = "open"]
    /\ UNCHANGED <<al_file, al_calls, al_done, al_header, pc, othersAl>>

\* line 48, second half: the buffered lines reach the end of the file in one write
\* when the handle is closed
WriteClose(w) ==
    /\ pc = "al"
    /\ al_at[w] = "open"
    /\ al_file' = al_file \o Written(al_header[w], w, al_done[w] + 1)
    /\ al_done' = [al_done EXCEPT ![w] = @ + 1]
    /\ al_at' = [al_at EXCEPT ![w] = "idle"]
    /\ UNCHANGED <<al_exists, al_calls, al_header, pc, othersAl>>

NextAl == \E w \in Writers : CheckExists(w) \/ OpenAppend(w) \/ WriteClose(w)

SpecAl == InitAl /\ [][NextAl]_vars

(***************************************************************************)
(* C9: filter_by_sol_contains                                              *)
(***************************************************************************)
Letters == DOMAIN LowerOf \cup {LowerOf[u] : u \in DOMAIN LowerOf}
IsAlnum(s) == \A i \in 1..Len(s) : s[i] \in AsciiDigits \cup Letters
HasDigit(s) == \E i \in 1..Len(s) : s[i] \in AsciiDigits
BlankCode(code) == code = None \/ Strip(Str(code)) = <<>>

\* the claim as written: the rows whose branch value, upper-cased, contains the
\* upper-cased code as a substring, rows with a missing branch value excluded, in
\* input order and unchanged; a blank or missing code returns the table as it is
FilterAsClaimed ==
    pc = "flt_done" =>
        flt_out =
            IF BlankCode(flt_pattern) THEN flt_df
            ELSE SelectSeq(flt_df,
                    LAMBDA row : ~IsNa(row.SOL)
                                 /\ Contains(Upper(row.SOL), Upper(flt_pattern)))

\* C9 (as amended): for a code of letters and digits, the result is exactly the rows
\* whose branch value read as text (a missing value reads "nan"), upper-cased,
\* contains the upper-cased code, in input order and unchanged; a row with a
\* missing branch value is excluded whenever the code has a digit in it; a blank or
\* missing code returns the table unfiltered.
C9_FilterBySol ==
    pc = "flt_done" =>
        /\ BlankCode(flt_pattern) => flt_out = flt_df
        /\ ~BlankCode(flt_pattern) /\ IsAlnum(flt_pattern) =>
              /\ flt_out = SelectSeq(flt_df,
                              LAMBDA row : Contains(Upper(Str(row.SOL)), Upper(flt_pattern)))
              /\ HasDigit(flt_pattern) =>
                    \A i \in 1..Len(flt_out) : ~IsNa(flt_out[i].SOL)

\* a run that keeps a row only thanks to case folding and drops a row with a
\* missing branch value
C9_Witness ==
    /\ pc = "flt_done"
    /\ ~BlankCode(flt_pattern) /\ IsAlnum(flt_pattern) /\ HasDigit(flt_pattern)
    /\ \E i \in 1..Len(flt_df) : IsNa(flt_df[i].SOL)
    /\ \E i \in 1..Len(flt_out) : ~Contains(flt_out[i].SOL, flt_pattern)
    /\ Len(flt_out) < Len(flt_df)

\* C9 as originally stated (any code): refuted by a code that occurs in "NAN" or
\* holds a "."
C9_Original == FilterAsClaimed

(***************************************************************************)
(* C10: the three open-to-withdrawal markers of HDV criterion 3            *)
(***************************************************************************)
\* the workbook row an output row came from
Tc3Source(r) == tc3_df[r.k]

Tc3HasDelta(r) ==
    Tc3Source(r).NGAY_HACH_TOAN.txt = "date" /\ Tc3Source(r).ACCT_OPN_DATE.txt = "date"

\* posting instant minus opening instant, in whole days
Tc3Delta(r) ==
    (Tc3Source(r).NGAY_HACH_TOAN.v - Tc3Source(r).ACCT_OPN_DATE.v) \div TicksPerDay

Tc3Markers(r) == {r.MO_RUT_CUNG_NGAY, r.MO_RUT_1_3_NGAY, r.MO_RUT_4_7_NGAY}

Tc3MarkerCount(r) ==
    (IF r.MO_RUT_CUNG_NGAY = "X" THEN 1 ELSE 0)
    + (IF r.MO_RUT_1_3_NGAY = "X" THEN 1 ELSE 0)
    + (IF r.MO_RUT_4_7_NGAY = "X" THEN 1 ELSE 0)

\* C10: same-day marker iff delta = 0, 1-3 day marker iff 0 < delta <= 3, 4-7 day
\* marker iff 4 <= delta <= 7; so a row carries at most one of the three, and a row
\* with a negative delta, a delta above 7 or a missing or unparsable date carries none.
C10_DeltaMarkers ==
    pc = "tc3_done" /\ tc3_out.shown = "table" =>
        \A i \in 1..Len(tc3_out.df) :
            LET r == tc3_out.df[i]
                has == Tc3HasDelta(r)
                d == Tc3Delta(r)
            IN  /\ Tc3Markers(r) \subseteq {"X", ""}
                /\ r.MO_RUT_CUNG_NGAY = "X" <=> (has /\ d = 0)
                /\ r.MO_RUT_1_3_NGAY = "X" <=> (has /\ 0 < d /\ d <= 3)
                /\ r.MO_RUT_4_7_NGAY = "X" <=> (has /\ 4 <= d /\ d <= 7)
                /\ Tc3MarkerCount(r) <= 1
                /\ (~has \/ d < 0 \/ d > 7) => Tc3MarkerCount(r) = 0

\* a result row whose posting is on the opening day (delta 0, same-day marker only)
C10_Witness ==
    /\ pc = "tc3_done" /\ tc3_out.shown = "table"
    /\ \E i \in 1..Len(tc3_out.df) :
          /\ Tc3HasDelta(tc3_out.df[i]) /\ Tc3Delta(tc3_out.df[i]) = 0
          /\ tc3_out.df[i].MO_RUT_CUNG_NGAY = "X"
          /\ tc3_out.df[i].MO_RUT_1_3_NGAY = ""

(***************************************************************************)
(* C6: relaxed schema normalization                                        *)
(***************************************************************************)
\* the table as it reaches ensure_columns
RlxInput == IF rlx_path = "mapping" THEN LowerColumns(rlx_read) ELSE rlx_read

\* the cell the claim promises at row i for declared column c
RlxExpectedCell(i, c) ==
    IF HasColumn(RlxInput, c)
    THEN RlxInput.rows[i][CHOOSE j \in 1..Len(RlxInput.columns) : RlxInput.columns[j] = c]
    ELSE <<>>

\* C6: ensure_columns(table, declared)[declared] raises no error and yields exactly
\* the declared columns in declared order, the same rows in the same order, present
\* declared columns unchanged, absent ones filled with empty text, the rest dropped.
C6_RelaxedTotal ==
    pc = "rlx_done" =>
        /\ rlx_out.error = ""
        /\ rlx_out.columns = rlx_cols
        /\ Len(rlx_out.rows) = Len(rlx_read.rows)
        /\ \A i \in 1..Len(rlx_out.rows) :
              rlx_out.rows[i] = [j \in 1..Len(rlx_cols) |-> RlxExpectedCell(i, rlx_cols[j])]

\* the same statement for tables whose labels are distinct when they reach
\* ensure_columns (every 42a table; a mapping table without case-colliding headers)
RlxTotalOnDistinctLabels == IsInjective(RlxInput.columns) => C6_RelaxedTotal

(***************************************************************************)
(* C7: strict schema check                                                 *)
(***************************************************************************)
\* the declared labels the header cannot supply, even up to blanks and case
CannotSupply == require_columns(str_header, DeclaredOf(str_pipe))

\* C7: in every strict-mode pipeline, a workbook that cannot supply one or more
\* declared columns fails with the typed schema error whose message names every
\* missing column; and when the check passes, the selection of the declared columns
\* by their exact names succeeds.
C7_StrictSchema ==
    pc = "str_done" =>
        /\ CannotSupply # {} =>
              str_out.error = "UserFacingError" /\ str_out.missing = CannotSupply
        /\ CannotSupply = {} => str_out.error = ""

(***************************************************************************)
(* C1, C5: the joins and key comparisons of process_uyquyen_sms_scm        *)
(***************************************************************************)
\* C1: the merged table returned by process_uyquyen_sms_scm has exactly as many rows
\* as the authorization table has after the signature filter, the corporate
\* exclusion and the de-duplication: the account-to-CIF left join neither adds nor
\* drops a row, even when an IDXACNO occurs more than once in the deposit union.
C1_JoinKeepsRows ==
    pc = "uq_done" =>
        [i \in 1..Len(uq_out.merged) |-> uq_out.merged[i].k]
            = [i \in 1..Len(PrepareMuc30(uq_a)) |-> PrepareMuc30(uq_a)[i].k]

\* the join key of an identifier, and whether two identifiers share one
JoinKey(x) == norm_custseq(x)
SameKey(x, y) == JoinKey(x) # NA /\ JoinKey(x) = JoinKey(y)

\* C5: every key comparison of criteria 1-3 treats two identifiers as equal whenever
\* they normalize to the same join key: an authorized account finds the CIF and the
\* class of a deposit account with the same key, the SMS registration of an account
\* with the same key, and a grantor CIF the SCM010 registration with the same key.
C5_KeysCompareNormalized ==
    pc = "uq_done" =>
        \A i \in 1..Len(uq_out.merged) :
            LET r == uq_out.merged[i]
                df_b == DepositUnion(uq_ckh, uq_kkh)
            IN  /\ (\E j \in 1..Len(df_b) :
                        /\ SameKey(df_b[j].IDXACNO, r.TK_DUOC_UY_QUYEN)
                        /\ JoinKey(df_b[j].CUSTSEQ) # NA)
                     => r.CIF_NGUOI_UY_QUYEN # NA
                /\ (\E j \in 1..Len(uq_kkh) :
                        SameKey(uq_kkh[j].IDXACNO, r.TK_DUOC_UY_QUYEN))
                     => r.LOAI_TK # "NA"
                /\ (\E j \in 1..Len(uq_sms) :
                        /\ SameKey(uq_sms[j].FORACID, r.TK_DUOC_UY_QUYEN)
                        /\ IsDigit(AsTypeStr(uq_sms[j].FORACID))
                        /\ Upper(AsTypeStr(uq_sms[j].CUSTTPCD)) # <<"K", "H", "D", "N">>)
                     => r.SMS = "X"
                /\ (\E j \in 1..Len(uq_scm) :
                        SameKey(uq_scm[j].CIF_ID, r.CIF_NGUOI_UY_QUYEN))
                     => r.SCM010 = "X"

(***************************************************************************)
(* C2: the join chain of process_tieuchi_4_5                               *)
(***************************************************************************)
\* C2: the criterion-4 result has exactly one row per KKH detail row that passes the
\* branch, KHCN and excluded-scheme filters: the four left joins keep the rows of
\* the left table, whatever duplicate keys the lookup tables contain.
C2_ChainKeepsRows ==
    pc = "tc4_done" =>
        [i \in 1..Len(tc4_out) |-> tc4_out[i].k]
            = [i \in 1..Len(Filter42a(tc4_42a, tc4_cn)) |-> Filter42a(tc4_42a, tc4_cn)[i].k]

(***************************************************************************)
(* C3: the rate lookups of HDV criterion 1                                 *)
(***************************************************************************)
\* the rate a lookup gives an account when only the first row of each account counts
FirstRate(rates, account) ==
    IF \E j \in 1..Len(rates) : rates[j].IDXACNO = account
    THEN to_numeric(rates[CHOOSE j \in 1..Len(rates) :
                              /\ rates[j].IDXACNO = account
                              /\ \A m \in 1..(j - 1) : rates[m].IDXACNO # account].rate)
    ELSE Missing

\* C3: the FTP lookup and the actual-rate lookup are de-duplicated on IDXACNO keeping
\* the first occurrence: the output has exactly one row per branch-filtered deposit
\* row, and that row carries the rate of the first lookup row for its account.
C3_FirstRatePerAccount ==
    (pc = "tc1_done" /\ tc1_out.shown = "table") =>
        LET kept == filter_by_sol_contains(tc1_ckh, validate_sol_only(tc1_raw).value)
            df == tc1_out.df
        IN  /\ [i \in 1..Len(df) |-> df[i].k] = [i \in 1..Len(kept) |-> kept[i].k]
            /\ \A i \in 1..Len(df) :
                  /\ df[i].LS_FTP = FirstRate(
                         [j \in 1..Len(tc1_ftp) |-> [IDXACNO |-> tc1_ftp[j].IDXACNO,
                                                     rate |-> tc1_ftp[j].LS_FTP]],
                         df[i].IDXACNO)
                  /\ df[i].LS_THUC_TRA = FirstRate(
                         [j \in 1..Len(tc1_tt) |-> [IDXACNO |-> tc1_tt[j].IDXACNO,
                                                    rate |-> tc1_tt[j].LS_THUC_TRA]],
                         df[i].IDXACNO)

(***************************************************************************)
(* C11: the overdue rules of process_tkhq_data                             *)
(***************************************************************************)
\* the whole days from the due date of an output row to the audit date
HqDays(r) == (hq_audit - r.DECLARATION_DUE_DATE.v) \div TicksPerDay
HqRecorded(r) ==
    /\ ~r.DECLARATION_DUE_DATE.isna /\ r.DECLARATION_RECEIVED_DATE.isna /\ HqDays(r) > 0

\* C11: the overdue-day count is recorded only for rows whose due date is present,
\* whose received date is missing and whose whole-day difference is positive, and is
\* empty otherwise; the overdue marker is "X" iff the count is recorded; the over-90
\* marker is "X" iff in addition the count exceeds 90; so over-90 implies overdue and
\* a row with a received date is never marked.
C11_OverdueRules ==
    pc = "hq_done" =>
        \A i \in 1..Len(hq_out) :
            LET r == hq_out[i]
            IN  /\ r.SO_NGAY_QUA_HAN = IF HqRecorded(r) THEN Value(HqDays(r)) ELSE Missing
                /\ r.QUA_HAN_CHUA_NHAP = "X" <=> HqRecorded(r)
                /\ r.QUA_HAN_90_NGAY = "X" <=> (HqRecorded(r) /\ HqDays(r) > 90)
                /\ r.QUA_HAN_90_NGAY = "X" => r.QUA_HAN_CHUA_NHAP = "X"
                /\ ~r.DECLARATION_RECEIVED_DATE.isna =>
                      r.QUA_HAN_CHUA_NHAP = "" /\ r.QUA_HAN_90_NGAY = ""

\* a run that marks a row 91 days overdue and leaves a row 90 days overdue unmarked
\* for the over-90 rule
C11_Witness ==
    /\ pc = "hq_done"
    /\ \E i, j \in 1..Len(hq_out) :
          /\ hq_out[i].SO_NGAY_QUA_HAN = Value(91) /\ hq_out[i].QUA_HAN_90_NGAY = "X"
          /\ hq_out[j].SO_NGAY_QUA_HAN = Value(90) /\ hq_out[j].QUA_HAN_90_NGAY = ""
          /\ hq_out[j].QUA_HAN_CHUA_NHAP = "X"

(***************************************************************************)
(* C12: the group-wise fallback fill of process_uyquyen_sms_scm            *)
(***************************************************************************)
\* the rows that bear the grantor name of row i
GrantorGroup(i) ==
    {j \in 1..Len(uq_out.merged) :
        uq_out.merged[j].NGUOI_UY_QUYEN = uq_out.merged[i].NGUOI_UY_QUYEN}

\* C12: after the fallback fill, in every group of rows sharing a grantor name, if a
\* row had a resolved CIF before the fill then no row has CIF "NA" after it, and if
\* every row had "NA" then every row still has "NA".
C12_FallbackFill ==
    pc = "uq_done" =>
        LET before == uq_out.cif_raw
        IN  \A i \in 1..Len(uq_out.merged) :
                ~IsNa(uq_out.merged[i].NGUOI_UY_QUYEN) =>
                    /\ (\E j \in GrantorGroup(i) : before[j] # NA)
                          => \A j \in GrantorGroup(i) :
                                 uq_out.merged[j].CIF_NGUOI_UY_QUYEN # NA
                    /\ (\A j \in GrantorGroup(i) : before[j] = NA)
                          => \A j \in GrantorGroup(i) :
                                 uq_out.merged[j].CIF_NGUOI_UY_QUYEN = NA

\* a run in which a row without a CIF took the CIF 555 of another row of its grantor
C12_Witness ==
    /\ pc = "uq_done"
    /\ \E i, j \in 1..Len(uq_out.merged) :
          /\ i # j /\ j \in GrantorGroup(i) /\ ~IsNa(uq_out.merged[i].NGUOI_UY_QUYEN)
          /\ uq_out.cif_raw[i] = <<"5", "5", "5">> /\ uq_out.cif_raw[j] = NA
          /\ uq_out.merged[j].CIF_NGUOI_UY_QUYEN = <<"5", "5", "5">>

(***************************************************************************)
(* C13: HDV criterion 2, the ranking table                                 *)
(***************************************************************************)
\* the accounts of the run's branch, CKH first
Tc2Accounts == filter_by_sol_contains(tc2_ckh \o tc2_kkh, validate_sol_only(tc2_raw).value)

\* the customers: the CUSTSEQ values the accounts bear
Tc2Customers == {Tc2Accounts[i].CUSTSEQ : i \in 1..Len(Tc2Accounts)} \ {NaN}

\* the sum of the numeric CURBAL_VN cells of the accounts at the positions S
RECURSIVE SumAmounts(_, _)
SumAmounts(acc, S) ==
    IF S = {} THEN 0
    ELSE LET i == CHOOSE i \in S : TRUE
         IN  (IF acc[i].CURBAL_VN.txt = "num" THEN acc[i].CURBAL_VN.v ELSE 0)
             + SumAmounts(acc, S \ {i})

Tc2Sum(acc, c) == SumAmounts(acc, {i \in 1..Len(acc) : acc[i].CUSTSEQ = c})

TopField(row, t, n) ==
    CASE t = KHDN /\ n = 10 -> row.TOP10_KHDN
      [] t = KHDN /\ n = 15 -> row.TOP15_KHDN
      [] t = KHDN /\ n = 20 -> row.TOP20_KHDN
      [] t = KHCN /\ n = 10 -> row.TOP10_KHCN
      [] t = KHCN /\ n = 15 -> row.TOP15_KHCN
      [] t = KHCN /\ n = 20 -> row.TOP20_KHCN

\* C13: the ranking table of HDV criterion 2 has exactly one row per customer
\* (CUSTSEQ) of the branch-filtered CKH and KKH accounts, and its balance is the sum
\* of the customer's CURBAL_VN; the rank of a customer that has a type is 1 plus
\* the number of customers of that type with a strictly greater balance; TOPn_t is
\* "X" iff the type is t and the rank is at most n; TOP10 implies TOP15 implies
\* TOP20, and no row is marked for both types.
C13_RankingTable ==
    (pc = "tc2_done" /\ tc2_out.shown = "table") =>
        LET acc == Tc2Accounts
            customers == Tc2Customers
            df == tc2_out.df
            rows == 1..Len(df)
            ranked == {i \in rows : ~IsNa(df[i].CUSTSEQ) /\ ~IsNa(df[i].CUST_TYPE)}
        IN  /\ \A c \in customers : Cardinality({i \in rows : df[i].CUSTSEQ = c}) = 1
            /\ \A i \in rows :
                  ~IsNa(df[i].CUSTSEQ) =>
                      /\ df[i].CUSTSEQ \in customers
                      /\ df[i].SO_DU = Value(Tc2Sum(acc, df[i].CUSTSEQ))
            /\ \A i \in ranked :
                  df[i].RANK_RAW =
                      Value(1 + Cardinality({j \in ranked :
                                                /\ df[j].CUST_TYPE = df[i].CUST_TYPE
                                                /\ df[j].SO_DU.v > df[i].SO_DU.v}))
            /\ \A i \in rows : \A t \in {KHDN, KHCN} :
                  /\ \A n \in {10, 15, 20} :
                        TopField(df[i], t, n) = "X"
                            <=> /\ df[i].CUST_TYPE = t
                                /\ ~df[i].RANK_RAW.isna
                                /\ df[i].RANK_RAW.v <= n
                  /\ TopField(df[i], t, 10) = "X" => TopField(df[i], t, 15) = "X"
                  /\ TopField(df[i], t, 15) = "X" => TopField(df[i], t, 20) = "X"
            /\ \A i \in rows : \A n, m \in {10, 15, 20} :
                  ~(TopField(df[i], KHDN, n) = "X" /\ TopField(df[i], KHCN, m) = "X")

\* a run over 21 customers of one type with balances 100, 100, 90, 80, ...: they
\* rank 1, 1, 3, 4, the balance of the first is the sum of two accounts, the
\* customer of rank 11 is marked TOP15 and not TOP10, and the last is not marked
C13_Witness ==
    /\ pc = "tc2_done"
    /\ tc2_out.shown = "table"
    /\ LET df == tc2_out.df
           Ranks(b, r) == \E i \in 1..Len(df) :
                             /\ df[i].CUST_TYPE = KHCN
                             /\ df[i].SO_DU = Value(b)
                             /\ df[i].RANK_RAW = Value(r)
       IN  /\ \E i, j \in 1..Len(df) :
                 /\ i # j
                 /\ df[i].SO_DU = Value(100) /\ df[i].RANK_RAW = Value(1)
                 /\ df[j].SO_DU = Value(100) /\ df[j].RANK_RAW = Value(1)
                 /\ Cardinality({a \in 1..Len(Tc2Accounts) :
                                    Tc2Accounts[a].CUSTSEQ = df[i].CUSTSEQ}) = 2
           /\ Ranks(90, 3)
           /\ Ranks(80, 4)
           /\ \E i \in 1..Len(df) :
                 /\ df[i].RANK_RAW = Value(11)
                 /\ df[i].TOP10_KHCN = "" /\ df[i].TOP15_KHCN = "X"
           /\ \E i \in 1..Len(df) :
                 /\ df[i].RANK_RAW = Value(21)
                 /\ df[i].TOP20_KHCN = "" /\ df[i].TOP20_KHDN = ""

(***************************************************************************)
(* C14: the SMS and SCM010 markers of process_uyquyen_sms_scm              *)
(***************************************************************************)
\* the SMS input registers the account: a row bears it as FORACID
SmsHasAccount(tk) == \E j \in 1..Len(uq_sms) : ~IsNa(tk) /\ uq_sms[j].FORACID = tk

\* the SMS input registers the account on a row the run keeps: the FORACID is made
\* of digits only and the customer type is not KHDN, in any letter case
SmsKeepsAccount(tk) ==
    \E j \in 1..Len(uq_sms) :
        /\ ~IsNa(tk)
        /\ uq_sms[j].FORACID = tk
        /\ IsDigit(tk)
        /\ Upper(Str(uq_sms[j].CUSTTPCD)) # KHDN

\* the SCM010 input registers the customer: a row bears the CIF as CIF_ID
ScmHasCif(cif) == \E j \in 1..Len(uq_scm) : ~IsNa(uq_scm[j].CIF_ID) /\ uq_scm[j].CIF_ID = cif

\* C14 (as amended): a row of the output is marked "X" for SMS registration iff its
\* authorized account number is the FORACID of a row of the SMS input whose FORACID
\* is made of digits only and whose customer type is not KHDN; it is marked "X" for
\* SCM010 registration iff its resolved grantor CIF is a CIF_ID of the SCM010 input.
C14_ServiceMarkers ==
    pc = "uq_done" =>
        \A i \in 1..Len(uq_out.merged) :
            LET row == uq_out.merged[i]
            IN  /\ row.SMS = "X" <=> SmsKeepsAccount(row.TK_DUOC_UY_QUYEN)
                /\ row.SCM010 = "X" <=> ScmHasCif(row.CIF_NGUOI_UY_QUYEN)

\* C14 (as stated): a row is marked for SMS registration iff its authorized account
\* number appears as an account in the SMS input, and for SCM010 registration iff
\* its resolved grantor CIF appears as a CIF in the SCM010 input.
C14_Original ==
    pc = "uq_done" =>
        \A i \in 1..Len(uq_out.merged) :
            LET row == uq_out.merged[i]
            IN  /\ row.SMS = "X" <=> SmsHasAccount(row.TK_DUOC_UY_QUYEN)
                /\ row.SCM010 = "X" <=> ScmHasCif(row.CIF_NGUOI_UY_QUYEN)

\* accounts 12345 and 777 of customer 555, SMS registrations {12345}, SCM010
\* registrations {555}: only the row of 12345 is SMS-marked, both are SCM010-marked
C14_Witness ==
    /\ pc = "uq_done"
    /\ Len(uq_out.merged) = 2
    /\ {uq_sms[j].FORACID : j \in 1..Len(uq_sms)} = {<<"1", "2", "3", "4", "5">>}
    /\ {uq_scm[j].CIF_ID : j \in 1..Len(uq_scm)} = {<<"5", "5", "5">>}
    /\ \E i, j \in 1..2 :
          /\ uq_out.merged[i].TK_DUOC_UY_QUYEN = <<"1", "2", "3", "4", "5">>
          /\ uq_out.merged[j].TK_DUOC_UY_QUYEN = <<"7", "7", "7">>
          /\ uq_out.merged[i].CIF_NGUOI_UY_QUYEN = <<"5", "5", "5">>
          /\ uq_out.merged[j].CIF_NGUOI_UY_QUYEN = <<"5", "5", "5">>
          /\ uq_out.merged[i].SMS = "X" /\ uq_out.merged[j].SMS = ""
          /\ uq_out.merged[i].SCM010 = "X" /\ uq_out.merged[j].SCM010 = "X"

(***************************************************************************)
(* C15: the account class of process_uyquyen_sms_scm                       *)
(***************************************************************************)
\* the table bears the account number as an account (IDXACNO)
HasAccount(table, tk) == ~IsNa(tk) /\ \E j \in 1..Len(table) : table[j].IDXACNO = tk

\* C15: every output row is classified into exactly one of CKH, KKH or NA: CKH iff
\* its authorized account number is an account of the CKH table, otherwise KKH iff
\* it is an account of the KKH table, otherwise NA; an account of both tables is
\* CKH, and a row whose account number is missing is NA.
C15_AccountClass ==
    pc = "uq_done" =>
        \A i \in 1..Len(uq_out.merged) :
            LET tk == uq_a[uq_out.merged[i].k].TK_DUOC_UY_QUYEN
                class == uq_out.merged[i].LOAI_TK
            IN  /\ class \in {"CKH", "KKH", "NA"}
                /\ class = "CKH" <=> HasAccount(uq_ckh, tk)
                /\ class = "KKH" <=> ~HasAccount(uq_ckh, tk) /\ HasAccount(uq_kkh, tk)
                /\ IsNa(tk) => class = "NA"

(***************************************************************************)
(* C16: the rate markers of HDV criterion 1                                *)
(***************************************************************************)
\* C16: in HDV criterion 1 the marker "booked rate differs from published rate" is
\* "X" iff both rates parse as numbers and are unequal, and the marker "booked rate
\* above FTP rate" is "X" iff both parse as numbers and the booked rate is strictly
\* greater: a row in which a compared value is missing or unparsable gets no mark
\* for that rule.
C16_RateMarkers ==
    (pc = "tc1_done" /\ tc1_out.shown = "table") =>
        \A i \in 1..Len(tc1_out.df) :
            LET row == tc1_out.df[i]
            IN  /\ row.LSGS_KHAC_LSCB = "X"
                      <=> /\ ~row.LS_GHISO.isna
                          /\ ~row.LS_CONG_BO.isna
                          /\ row.LS_GHISO.v # row.LS_CONG_BO.v
                /\ row.LSGS_LON_HON_FTP = "X"
                      <=> /\ ~row.LS_GHISO.isna
                          /\ ~row.LS_FTP.isna
                          /\ row.LS_GHISO.v > row.LS_FTP.v

(***************************************************************************)
(* C17: one recipient, many grantors                                       *)
(***************************************************************************)
\* the distinct grantor names on the rows of merged that bear the recipient name
GrantorsOf(nhan) ==
    {uq_out.merged[j].NGUOI_UY_QUYEN : j \in
        {j \in 1..Len(uq_out.merged) : uq_out.merged[j].NGUOI_DUOC_UY_QUYEN = nhan}} \ {NaN}

\* C17: in the criterion-3 table the marker "one recipient, many grantors" is "X" on
\* a row iff the rows of the merged table that share the row's recipient name bear 2
\* or more distinct grantor names; the table has the rows of the merged table, in
\* the same order (its other columns are those of merged).
C17_ManyGrantors ==
    pc = "uq_done" =>
        /\ Len(uq_out.tc3) = Len(uq_out.merged)
        /\ \A i \in 1..Len(uq_out.merged) :
              LET nhan == uq_out.merged[i].NGUOI_DUOC_UY_QUYEN
              IN  uq_out.tc3[i] = "X"
                      <=> ~IsNa(nhan) /\ Cardinality(GrantorsOf(nhan)) >= 2

\* a recipient named by two grantors next to a recipient named by one: both rows of
\* the first are marked, the row of the second is not
C17_Witness ==
    /\ pc = "uq_done"
    /\ Len(uq_out.merged) = 3
    /\ \E i, j, m \in 1..3 :
          /\ i # j
          /\ uq_out.merged[i].NGUOI_DUOC_UY_QUYEN = uq_out.merged[j].NGUOI_DUOC_UY_QUYEN
          /\ uq_out.merged[i].NGUOI_UY_QUYEN = <<"A", "N">>
          /\ uq_out.merged[j].NGUOI_UY_QUYEN = <<"B", "A">>
          /\ uq_out.tc3[i] = "X" /\ uq_out.tc3[j] = "X"
          /\ uq_out.merged[m].NGUOI_DUOC_UY_QUYEN = <<"C", "u">>
          /\ uq_out.tc3[m] = ""

(***************************************************************************)
(* C18: to_excel_bytes                                                     *)
(***************************************************************************)
\* the first 31 characters of a name
SheetTitle(name) == [i \in 1..(IF Len(name) < 31 THEN Len(name) ELSE 31) |-> name[i]]

XlsEntries == 1..Len(xls_dfs)

\* the names of the mapping stay distinct after truncation
XlsDistinctNames ==
    \A i, j \in XlsEntries : i # j => SheetTitle(xls_dfs[i].name) # SheetTitle(xls_dfs[j].name)

\* the mapping has an entry, and its truncated names are sheet titles a workbook
\* can hold: without \ * ? : / [ ], and distinct whatever the letter case
XlsTitlesFit ==
    /\ xls_dfs # <<>>
    /\ \A i \in XlsEntries :
          \A c \in 1..Len(SheetTitle(xls_dfs[i].name)) :
              SheetTitle(xls_dfs[i].name)[c] \notin {"\\", "*", "?", ":", "/", "[", "]"}
    /\ \A i, j \in XlsEntries :
          i # j => Lower(SheetTitle(xls_dfs[i].name)) # Lower(SheetTitle(xls_dfs[j].name))

\* the sheets are the entries, in order, named by the first 31 characters and
\* holding the columns and rows of the table in their order
XlsSheetPerEntry ==
    /\ xls_out.raised = ""
    /\ Len(xls_out.sheets) = Len(xls_dfs)
    /\ \A i \in XlsEntries :
          /\ xls_out.sheets[i].title = SheetTitle(xls_dfs[i].name)
          /\ Len(xls_out.sheets[i].grid) = 1 + Len(xls_dfs[i].df.rows)
          /\ xls_out.sheets[i].grid[1] = xls_dfs[i].df.columns
          /\ \A r \in 1..Len(xls_dfs[i].df.rows) :
                \A c \in 1..Len(xls_dfs[i].df.columns) :
                    xls_out.sheets[i].grid[r + 1][c] =
                        IF IsNa(xls_dfs[i].df.rows[r][c]) THEN <<>> ELSE xls_dfs[i].df.rows[r][c]

XlsColumnSet(df) == {df.columns[j] : j \in 1..Len(df.columns)}

\* the rows of the table down to the last row that has a value
XlsFilledRows(df) ==
    LET filled == {r \in 1..Len(df.rows) :
                      \E c \in 1..Len(df.rows[r]) : ~IsNa(df.rows[r][c]) /\ df.rows[r][c] # <<>>}
    IN  IF filled = {} THEN 0 ELSE CHOOSE r \in filled : \A q \in filled : q <= r

\* C18 (as amended): given a non-empty mapping whose names, cut to 31 characters,
\* are free of the characters \ * ? : / [ ] and distinct whatever the letter case,
\* to_excel_bytes produces one workbook with exactly one sheet per entry, in mapping
\* order, each named by the first 31 characters of its entry name and holding the
\* table's columns and rows in their order; a sheet read back has the column set
\* of the exported table and its rows down to the last row that has a value (the
\* same row count when the last row of the table has a value).
C18_ExportRoundTrip ==
    (pc \in {"xls_written", "xls_read"} /\ XlsTitlesFit) =>
        /\ XlsSheetPerEntry
        /\ pc = "xls_read" =>
              \A i \in XlsEntries :
                  /\ Len(xls_read[i].rows) = XlsFilledRows(xls_dfs[i].df)
                  /\ XlsColumnSet(xls_read[i]) = XlsColumnSet(xls_dfs[i].df)

\* C18 (as stated): given a mapping whose names stay distinct after truncation to 31
\* characters, to_excel_bytes produces one workbook with exactly one sheet per
\* entry, in mapping order, each named by the first 31 characters of its entry
\* name and holding the table's columns and rows in their order; a sheet read back
\* has the row count and the column set of the exported table.
C18_Original ==
    (pc \in {"xls_written", "xls_read"} /\ XlsDistinctNames) =>
        /\ XlsSheetPerEntry
        /\ pc = "xls_read" =>
              \A i \in XlsEntries :
                  /\ Len(xls_read[i].rows) = Len(xls_dfs[i].df.rows)
                  /\ XlsColumnSet(xls_read[i]) = XlsColumnSet(xls_dfs[i].df)

\* a mapping of two tables, the first under a name longer than 31 characters, read
\* back from two sheets: the first sheet bears the first 31 characters, and both
\* tables come back with their row and their columns
C18_Witness ==
    /\ pc = "xls_read"
    /\ XlsTitlesFit
    /\ Len(xls_dfs) = 2
    /\ Len(xls_dfs[1].name) > 31
    /\ Len(xls_read) = 2
    /\ xls_out.sheets[1].title = [i \in 1..31 |-> "a"]
    /\ xls_out.sheets[2].title = xls_dfs[2].name
    /\ \A i \in 1..2 :
          /\ Len(xls_dfs[i].df.rows) = 1
          /\ Len(xls_read[i].rows) = 1
          /\ xls_read[i].columns = xls_dfs[i].df.columns

(***************************************************************************)
(* C19: in every HDV criterion run (TC1, TC2, TC3) a result table and its  *)
(* download are rendered only if the SOL validation and every required-    *)
(* column check succeeded; when the validation or a schema check fails the *)
(* run renders exactly one error message and no success line, table or     *)
(* download, not even a partial one.                                       *)
(***************************************************************************)
PageKinds(page) == {page[i].kind : i \in 1..Len(page)}
PageErrors(page) == Cardinality({i \in 1..Len(page) : page[i].kind = "error"})

\* the SOL text is one the validation accepts
PgSolValid == validate_sol_only(pg_raw).raised = ""

\* every upload has every declared label, as ensure_required_columns compares them
PgSchemaOk ==
    \A i \in 1..Len(pg_files) :
        \A j \in 1..Len(UploadsOf(pg_tc)[i]) :
            \E k \in 1..Len(pg_files[i].columns) :
                NormLabel(pg_files[i].columns[k]) = NormLabel(UploadsOf(pg_tc)[i][j])

PgAllUploaded == \A i \in 1..Len(pg_files) : pg_files[i].uploaded

C19_TableOnlyAfterChecks ==
    pc = "pg_done" =>
        /\ PageKinds(pg_page) \cap {"dataframe", "download"} # {}
              => PgAllUploaded /\ PgSolValid /\ PgSchemaOk
        /\ ~(PgSolValid /\ PgSchemaOk)
              => /\ PageErrors(pg_page) = 1
                 /\ PageKinds(pg_page) = {"error"}

\* a run with every workbook uploaded and a valid SOL, one workbook lacking a
\* declared column: one error and nothing else
C19_Witness ==
    /\ pc = "pg_done"
    /\ PgAllUploaded /\ PgSolValid /\ ~PgSchemaOk
    /\ pg_page = <<PageError(FALSE)>>

(***************************************************************************)
(* C20: for every module dispatched through run_with_user_error, the DVKH  *)
(* module through run_dvkh_5_tieuchi included: an exception that is        *)
(* neither a UserFacingError nor a Streamlit rerun/stop exception does not *)
(* leave the dispatcher and is reported as the generic message with the    *)
(* traceback of the original exception; a UserFacingError is reported with *)
(* its own message only; a rerun/stop exception is re-raised.              *)
(***************************************************************************)
C20_Dispatcher ==
    pc = "disp_done" /\ disp_exc # NoException =>
        CASE disp_exc.type = "UserFacingError" ->
                /\ disp_out.propagated = NoException
                /\ disp_out.page = <<Rendered(disp_exc.message, "")>>
          [] disp_exc.type \in ControlExceptions ->
                /\ disp_out.propagated = disp_exc
                /\ disp_out.page = <<>>
          [] OTHER ->
                /\ disp_out.propagated = NoException
                /\ disp_out.page = <<Rendered("generic", disp_exc.type)>>

(***************************************************************************)
(* C21: in a DVKH criteria 1-3 run, if a required upload (CKH archive, KKH *)
(* archive, MUC30 workbook, SMS archive, SCM010 workbook) cannot be parsed,*)
(* the run ends in an error that names that upload, and never completes    *)
(* with result tables computed as if the unreadable file were empty.       *)
(***************************************************************************)
BtnUploads == {"ckh", "kkh", "muc30", "sms", "scm"}

BtnSucceeded == \E i \in 1..Len(btn_out.page) : btn_out.page[i].kind \in {"success", "download"}

\* the page has an error whose text names the upload u and no other
BtnNames(u) == \E i \in 1..Len(btn_out.page) :
                  btn_out.page[i].kind = "error" /\ btn_out.page[i].names = {u}

C21_UnreadableUploadFails ==
    pc = "btn_done" /\ btn_up.tab = "1-3" /\ btn_up.ctl = "" =>
        \A u \in BtnUploads :
            Unparsable(btn_up[u]) => ~BtnSucceeded /\ BtnNames(u)

(***************************************************************************)
(* C22: for concurrent runs calling audit_log in any interleaving, also    *)
(* when the audit file does not exist yet, the file afterwards is exactly  *)
(* one header line, as its first line, followed by exactly one complete    *)
(* record per call: none lost or duplicated, no second header among them.  *)
(***************************************************************************)
RECURSIVE SumCalls(_, _)
SumCalls(calls, w) == IF w = 0 THEN 0 ELSE calls[w] + SumCalls(calls, w - 1)

AlAllDone == \A w \in Writers : al_done[w] = al_calls[w] /\ al_at[w] = "idle"

C22_AuditFile ==
    pc = "al" /\ AlAllDone =>
        /\ al_file # <<>>
        /\ al_file[1] = HeaderLine
        /\ \A i \in 2..Len(al_file) : ~al_file[i].header
        /\ \A w \in Writers : \A n \in 1..al_calls[w] :
              Cardinality({i \in 1..Len(al_file) : al_file[i] = Record(w, n)}) = 1
        /\ Len(al_file) = 1 + SumCalls(al_calls, MaxWriters)

(***************************************************************************)
(* C23: the 'due date not entered' marker of process_tkhq_data             *)
(***************************************************************************)
\* the due-date cell is empty, or a text that is no date
HqNoDate(cell) == cell.txt \notin {"iso", "dmy"}

\* the due-date cell is a date text that the parse turned down: a text whose month
\* and day fit neither way round, or, where the format is fixed on the first date of
\* the column, a text of another form or an impossible date
HqTurnedDown(i) ==
    LET cell == hq_df[i].DECLARATION_DUE_DATE
    IN  /\ ~HqNoDate(cell)
        /\ hq_out[i].DECLARATION_DUE_DATE.isna

Tc3DaysAgo(r) == (tc3_today \div TicksPerDay) - (r.NGAY_HACH_TOAN.v \div TicksPerDay)

\* C24: the camera-retention marker is "X" iff the posting date is present and lies in
\* the trailing 90-day window that ends at the day of evaluation (0 <= evaluation day
\* minus posting date <= 90 days); a posting date more than 90 days old, one after the
\* evaluation day and a missing one are not marked.
C24_CameraWindow ==
    pc = "tc3_done" /\ tc3_out.shown = "table" =>
        \A i \in 1..Len(tc3_out.df) :
            LET r == tc3_out.df[i]
            IN  r.TRONG_THOI_HIEU_CAMERA = "X" <=>
                    /\ ~r.NGAY_HACH_TOAN.isna
                    /\ 0 <= Tc3DaysAgo(r) /\ Tc3DaysAgo(r) <= 90

(***************************************************************************)
(* C25: the day-first decision of smart_date_parse                         *)
(***************************************************************************)
HqDueColumn == [i \in 1..Len(hq_df) |-> hq_df[i].DECLARATION_DUE_DATE]

\* the cell at i is one of the first 20 cells of the column that are not missing
HqSampled(col, i) ==
    /\ col[i].txt # "nan"
    /\ Cardinality({j \in 1..(i - 1) : col[j].txt # "nan"}) < 20

\* some sampled value has a first number above 12
HqDayFirst(col) ==
    \E i \in 1..Len(col) : HqSampled(col, i) /\ col[i].txt = "dmy" /\ col[i].a > 12

\* a date text that is a date under both orders, and not the same one
HqEitherWay(cell) ==
    cell.txt = "dmy" /\ cell.a <= 12 /\ cell.b <= 12 /\ cell.a # cell.b

\* C25: smart_date_parse reads all dates of a column day-first iff, among the first 20
\* non-missing values of the column, one has a first number greater than 12, and
\* month-first otherwise; missing cells do not count toward the 20 sampled values, and
\* the decision is the same for every row.
C25_DayFirstDecision ==
    pc = "hq_done" =>
        \A i \in 1..Len(hq_out) :
            LET cell == HqDueColumn[i]
            IN  HqEitherWay(cell) /\ ~hq_out[i].DECLARATION_DUE_DATE.isna =>
                    hq_out[i].DECLARATION_DUE_DATE =
                        IF HqDayFirst(HqDueColumn) THEN TickOf(cell.b, cell.a, 0)
                        ELSE TickOf(cell.a, cell.b, 0)

(***************************************************************************)
(* C26: the fallback fill when a grantor name has several resolved CIFs    *)
(***************************************************************************)
\* the rows of the grantor group of row i that had a resolved CIF before the fill
ResolvedOf(i) == {j \in GrantorGroup(i) : uq_out.cif_raw[j] # NA}

\* C26: when a grantor-name group holds several distinct resolved CIFs, every "NA" row
\* of the group receives the CIF of the first row of the group, in input order, that
\* has a resolved CIF; rows that already had a resolved CIF keep their own value, rows
\* of other groups are unaffected, and a second fill would change nothing (no row that
\* is still "NA" has a row with a CIF in its group).
C26_FirstResolvedWins ==
    pc = "uq_done" =>
        \A i \in 1..Len(uq_out.merged) :
            LET before == uq_out.cif_raw[i]
                after == uq_out.merged[i].CIF_NGUOI_UY_QUYEN
                named == ~IsNa(uq_out.merged[i].NGUOI_UY_QUYEN)
            IN  /\ before # NA => after = before
                /\ ~named => after = before
                /\ before = NA /\ named /\ ResolvedOf(i) # {} =>
                      after = uq_out.cif_raw[CHOOSE j \in ResolvedOf(i) :
                                                \A m \in ResolvedOf(i) : j <= m]
                /\ before = NA /\ named /\ ResolvedOf(i) = {} => after = NA
                /\ after = NA /\ named =>
                      \A j \in GrantorGroup(i) : uq_out.merged[j].CIF_NGUOI_UY_QUYEN = NA

\* a run in which a grantor has rows with the CIFs 556 and 555, in that order, and a
\* row without: the row without takes 556, the others keep theirs
C26_Witness ==
    /\ pc = "uq_done"
    /\ \E i, j, m \in 1..Len(uq_out.merged) :
          /\ i < j /\ {j, m} \subseteq GrantorGroup(i)
          /\ ~IsNa(uq_out.merged[i].NGUOI_UY_QUYEN)
          /\ uq_out.cif_raw[i] = <<"5", "5", "6">> /\ uq_out.cif_raw[j] = <<"5", "5", "5">>
          /\ uq_out.cif_raw[m] = NA
          /\ uq_out.merged[m].CIF_NGUOI_UY_QUYEN = <<"5", "5", "6">>
          /\ uq_out.merged[j].CIF_NGUOI_UY_QUYEN = <<"5", "5", "5">>

(***************************************************************************)
(* C27: the branch filter runs only with a validated code                  *)
(***************************************************************************)
\* C27: in every pipeline that filters rows by a user-supplied branch code (here DVKH
\* criteria 4-5), the row filter is applied only with a code that has passed the
\* 4-digit validation: a code that is not exactly 4 digits aborts the run with the
\* validation error before any input table is read or filtered, so no result is ever
\* computed from an unvalidated code.
C27_FilterOnlyValidated ==
    pc = "btn_done" /\ btn_up.tab = "4-5"
        /\ (\/ BtnSucceeded
            \/ "run_tieuchi_4_5_start" \in {btn_out.audit[i] : i \in 1..Len(btn_out.audit)})
        => validate_sol_only(btn_up.cn).raised = ""

(***************************************************************************)
(* C28: no stage changes the table that was passed to it                   *)
(***************************************************************************)
\* the table handed to ensure_columns: the table read, its labels lower-cased first
\* on the mapping path
RlxPassed == IF rlx_path = "mapping" THEN LowerColumns(rlx_read) ELSE rlx_read

\* C28: after ensure_columns returns, the caller's input table has the same column
\* names, the same columns and the same cell values as before the call; every change
\* appears only in the returned table.
C28_InputsUntouched ==
    pc = "rlx_done" => rlx_df = RlxPassed

(***************************************************************************)
(* C29: the join key columns of the lookups in the criterion-4 table       *)
(***************************************************************************)
Tc4Columns == UNION {DOMAIN tc4_out[i] : i \in 1..Len(tc4_out)}

BtnAction(kind) ==
    IF btn_up.tab = "1-3"
    THEN CASE kind = "failed" -> "run_tieuchi_1_3_failed"
           [] kind = "start" -> "run_tieuchi_1_3_start"
           [] kind = "success" -> "run_tieuchi_1_3_success"
           [] OTHER -> "run_tieuchi_1_3_error"
    ELSE CASE kind = "failed" -> "run_tieuchi_4_5_failed"
           [] kind = "start" -> "run_tieuchi_4_5_start"
           [] kind = "success" -> "run_tieuchi_4_5_success"
           [] OTHER -> "run_tieuchi_4_5_error"

\* a required input of the pressed button is missing: an upload is not there or gave no
\* file, the SMS archive has no text file, the SOL box is empty
BtnInputsMissing ==
    IF btn_up.tab = "1-3"
    THEN \/ \E u \in {"muc30", "scm", "sms"} : btn_up[u] = "absent"
         \/ \E u \in {"ckh", "kkh"} : btn_up[u] \in {"absent", "zip_bad"}
         \/ btn_up.sms \in {"zip_bad", "zip_no_txt"}
    ELSE \/ \E u \in {"f42a", "f42b", "f42c", "f42d", "map"} : btn_up[u] = "absent"
         \/ btn_up.cn \in {<<>>, <<" ">>}

\* C30: the audit entries written by one press of a run button are either the single
\* entry "failed", exactly when a required input is missing, or "start" followed by
\* exactly one of "success" and "error"; no "success" or "error" comes without the
\* "start" before it, and no "start" stays without its closing entry.
C30_AuditSequences ==
    pc = "btn_done" =>
        /\ btn_out.audit \in {<<BtnAction("failed")>>,
                              <<BtnAction("start"), BtnAction("success")>>,
                              <<BtnAction("start"), BtnAction("error")>>}
        /\ (btn_out.audit = <<BtnAction("failed")>>) <=> BtnInputsMissing

=============================================================================
